---- MODULE Spec2Model ----
(***************************************************************************)
(* QuantFolio - pairs / basket mean-reversion backtest engine              *)
(* (src/lib/finance/pairs.ts).                                             *)
(*                                                                         *)
(* The backtests are modelled bar by bar: one action is one iteration of   *)
(* the for-loop of calculateBacktest / calculateBasketBacktest (exit       *)
(* check, entry check, equityCurve.push, drawdown), and Finish is the code *)
(* after the loop.  The locals of each function are the fields of the      *)
(* records `pairs` and `basket`, under the names the source gives them.    *)
(*                                                                         *)
(* Numbers.  Prices, shares, pnl and equity are JavaScript doubles; the    *)
(* model draws prices that divide the exposure exactly, so every quotient  *)
(* the code forms is an integer and integer arithmetic is exact.  A        *)
(* Z-score is a double that may be NaN or +-Infinity (a division by a zero *)
(* standard deviation); it is modelled as a record, see Num, NaN, Inf.     *)
(* dates[i] is modelled by the bar index i, the initial entryDate "" by    *)
(* NoDate.  The Sharpe ratio (a square root of the return variance) is not *)
(* modelled.                                                               *)
(***************************************************************************)
EXTENDS Integers, Sequences, FiniteSets, TLC

VARIABLES
    fn,          \* the function running, by its name in the source
    pc,          \* where it is: "analyze" (z-scores not yet computed), "loop",
                 \* "call", "newton", "bisection", "descent", "grid", "done"
    n,           \* zScores.length
    i,           \* the loop index of the bar processed last (0 before the loop)
    bar,         \* the inputs read on bar i: [z, prices]
    hedgeRatio,  \* calculateBacktest's hedgeRatio (beta of analyzePairs)
    weights,     \* calculateBasketBacktest's weights
    config,      \* the caller's BacktestConfig (pairsConfig / StrategySettings)
    spread,      \* analyzePairs / analyzeBasket: the spread series
    zScore,      \* analyzePairs / analyzeBasket: the z-score series
    pairs,       \* locals of calculateBacktest
    basket,      \* locals of calculateBasketBacktest
    result,      \* the returned BacktestResult / BasketBacktestResult
    args,        \* the arguments of a call of one of the other engines
    locals,      \* the locals of that call
    ret          \* the value that call returned

vars == <<fn, pc, n, i, bar, hedgeRatio, weights, config, spread, zScore,
          pairs, basket, result, args, locals, ret>>

(***************************************************************************)
(* Bounds and input domains                                                *)
(***************************************************************************)
MaxLen == 4
MaxSpreadLen == 6
HoldBars == 2

Prices == {10, 20}
HedgeRatios == {-1, 1, 2}
SpreadValues == {0, 1}
symbols == <<"A", "B">>
SymbolSet == {symbols[k] : k \in 1..Len(symbols)}
PriceMaps == [SymbolSet -> Prices]
AnalyzePriceMaps == {p \in PriceMaps : p["B"] = 10}

(***************************************************************************)
(* Doubles that can be NaN or infinite.  A finite z is num / sqrt(den2)    *)
(* (den2 > 0), which is the exact value of (s - mean) / std for an         *)
(* integer spread; every comparison with an integer is decided exactly.    *)
(* As in IEEE-754, every comparison with NaN is false.                     *)
(***************************************************************************)
Num(a) == [kind |-> "num", num |-> a, den2 |-> 1]
NaN == [kind |-> "nan", num |-> 0, den2 |-> 1]
Inf(s) == [kind |-> "inf", num |-> s, den2 |-> 1]

Abs(x) == IF x < 0 THEN -x ELSE x

FGt(z, c) ==
    \/ z.kind = "inf" /\ z.num > 0
    \/ /\ z.kind = "num"
       /\ IF c >= 0
          THEN z.num > 0 /\ z.num * z.num > c * c * z.den2
          ELSE z.num >= 0 \/ z.num * z.num < c * c * z.den2

FLt(z, c) ==
    \/ z.kind = "inf" /\ z.num < 0
    \/ /\ z.kind = "num"
       /\ IF c <= 0
          THEN z.num < 0 /\ z.num * z.num > c * c * z.den2
          ELSE z.num <= 0 \/ z.num * z.num < c * c * z.den2

FGe(z, c) == z.kind # "nan" /\ ~FLt(z, c)
FLe(z, c) == z.kind # "nan" /\ ~FGt(z, c)

ZValues == {Num(-3), Num(-2), Num(0), Num(2), Num(3), NaN}

(***************************************************************************)
(* BacktestConfig                                                          *)
(***************************************************************************)
Null == {}
Some(x) == {x}

DEFAULT_BACKTEST_CONFIG ==
    [entryThresholdUpper |-> 2, entryThresholdLower |-> -2, exitThreshold |-> 0,
     stopLossPercent |-> Null, trailingStopPercent |-> Null,
     capitalPerLeg |-> 1000, rollingWindow |-> Null, maxHoldingPeriod |-> Null]

Configs ==
    { DEFAULT_BACKTEST_CONFIG,
      [DEFAULT_BACKTEST_CONFIG EXCEPT !.entryThresholdUpper = 3,
                                      !.entryThresholdLower = -3],
      [DEFAULT_BACKTEST_CONFIG EXCEPT !.stopLossPercent = Some(20)],
      [DEFAULT_BACKTEST_CONFIG EXCEPT !.maxHoldingPeriod = Some(HoldBars)] }

(***************************************************************************)
(* calculateBacktest                                                       *)
(***************************************************************************)
NoDate == -1
InitialCapital == 10000
exposurePerLeg == 1000
baseAllocation == 2000

\* dd = (peakEquity - equity) / peakEquity, as an exact fraction (peakEquity > 0)
Drawdown(peakEquity, equity) == [num |-> peakEquity - equity, den |-> peakEquity]
FracGt(a, b) == a.num * b.den > b.num * a.den

\* faulty variant: the curve starts empty instead of holding the initial capital
PairsInit_EmptyCurve ==
    [equity |-> InitialCapital, equityCurve |-> <<>>, position |-> 0,
     entryPriceA |-> 0, entryPriceB |-> 0, entryDate |-> NoDate, entryZ |-> Num(0),
     wins |-> 0, totalTrades |-> 0, peakEquity |-> InitialCapital,
     maxDrawdown |-> [num |-> 0, den |-> 1], history |-> <<>>,
     entrySharesA |-> 0, entrySharesB |-> 0]

\* faulty variant: the bar of index 0 was evaluated and opened a short position
PairsInit_EnteredOnFirstBar ==
    [equity |-> InitialCapital, equityCurve |-> <<InitialCapital>>, position |-> -1,
     entryPriceA |-> 10, entryPriceB |-> 10, entryDate |-> 0, entryZ |-> Num(3),
     wins |-> 0, totalTrades |-> 0, peakEquity |-> InitialCapital,
     maxDrawdown |-> [num |-> 0, den |-> 1], history |-> <<>>,
     entrySharesA |-> 100, entrySharesB |-> 100]

PairsInit ==
    [equity |-> InitialCapital, equityCurve |-> <<InitialCapital>>, position |-> 0,
     entryPriceA |-> 0, entryPriceB |-> 0, entryDate |-> NoDate, entryZ |-> Num(0),
     wins |-> 0, totalTrades |-> 0, peakEquity |-> InitialCapital,
     maxDrawdown |-> [num |-> 0, den |-> 1], history |-> <<>>,
     entrySharesA |-> 0, entrySharesB |-> 0]

\* faulty variant: strict comparisons, a z-score of exactly 0 does not exit
CrossedMean_Strict(position, z) ==
    (position = 1 /\ FGt(z, 0)) \/ (position = -1 /\ FLt(z, 0))

CrossedMean(position, z) ==
    (position = 1 /\ FGe(z, 0)) \/ (position = -1 /\ FLe(z, 0))

DirA(position) == IF position = 1 THEN 1 ELSE -1

\* faulty variant: leg B is always opposite to leg A
DirB_AlwaysOpposite(position, beta) ==
    IF position = 1 THEN -1 ELSE 1

DirB(position, beta) ==
    IF position = 1 THEN (IF beta > 0 THEN -1 ELSE 1)
                    ELSE (IF beta > 0 THEN 1 ELSE -1)

Side(dir) == IF dir = 1 THEN "Long" ELSE "Short"

\* faulty variant: the bar's date is recorded as the entry date
PairsTrade_EntryIsExitDate(st, z, pA, pB, date, beta) ==
    LET dirA == DirA(st.position)
        dirB == DirB(st.position, beta)
        pnlA == st.entrySharesA * dirA * (pA - st.entryPriceA)
        pnlB == st.entrySharesB * dirB * (pB - st.entryPriceB)
    IN  [type |-> IF st.position = 1 THEN "Long" ELSE "Short",
         entryDate |-> date, exitDate |-> date,
         entryZ |-> st.entryZ, exitZ |-> z,
         pnl |-> pnlA + pnlB, pnlA |-> pnlA, pnlB |-> pnlB,
         sideA |-> Side(dirA), sideB |-> Side(dirB),
         entryPriceA |-> st.entryPriceA, entryPriceB |-> st.entryPriceB,
         exitPriceA |-> pA, exitPriceB |-> pB]

PairsTrade(st, z, pA, pB, date, beta) ==
    LET dirA == DirA(st.position)
        dirB == DirB(st.position, beta)
        pnlA == st.entrySharesA * dirA * (pA - st.entryPriceA)
        pnlB == st.entrySharesB * dirB * (pB - st.entryPriceB)
    IN  [type |-> IF st.position = 1 THEN "Long" ELSE "Short",
         entryDate |-> st.entryDate, exitDate |-> date,
         entryZ |-> st.entryZ, exitZ |-> z,
         pnl |-> pnlA + pnlB, pnlA |-> pnlA, pnlB |-> pnlB,
         sideA |-> Side(dirA), sideB |-> Side(dirB),
         entryPriceA |-> st.entryPriceA, entryPriceB |-> st.entryPriceB,
         exitPriceA |-> pA, exitPriceB |-> pB]

\* faulty variant: only leg A's pnl is realized into equity
PairsExit_LegAOnly(st, z, pA, pB, date, beta) ==
    IF st.position # 0 /\ CrossedMean(st.position, z)
    THEN LET t == PairsTrade(st, z, pA, pB, date, beta)
         IN  [st EXCEPT !.equity = st.equity + t.pnlA,
                        !.totalTrades = st.totalTrades + 1,
                        !.wins = IF t.pnl > 0 THEN st.wins + 1 ELSE st.wins,
                        !.history = Append(st.history, t),
                        !.position = 0,
                        !.entrySharesA = 0,
                        !.entrySharesB = 0]
    ELSE st

\* faulty variant: an open position is marked to market into equity on every bar
PairsExit_MarkToMarket(st, z, pA, pB, date, beta) ==
    IF st.position # 0
    THEN LET t == PairsTrade(st, z, pA, pB, date, beta)
         IN  IF CrossedMean(st.position, z)
             THEN [st EXCEPT !.equity = st.equity + t.pnl,
                             !.totalTrades = st.totalTrades + 1,
                             !.wins = IF t.pnl > 0 THEN st.wins + 1 ELSE st.wins,
                             !.history = Append(st.history, t),
                             !.position = 0,
                             !.entrySharesA = 0,
                             !.entrySharesB = 0]
             ELSE [st EXCEPT !.equity = st.equity + t.pnl]
    ELSE st

\* faulty variant: the position is not reset to flat on exit
PairsExit_StaysOpen(st, z, pA, pB, date, beta) ==
    IF st.position # 0 /\ CrossedMean(st.position, z)
    THEN LET t == PairsTrade(st, z, pA, pB, date, beta)
         IN  [st EXCEPT !.equity = st.equity + t.pnl,
                        !.totalTrades = st.totalTrades + 1,
                        !.wins = IF t.pnl > 0 THEN st.wins + 1 ELSE st.wins,
                        !.history = Append(st.history, t)]
    ELSE st

\* if (position !== 0) { if (crossedMean) { ... } }
PairsExit(st, z, pA, pB, date, beta) ==
    IF st.position # 0 /\ CrossedMean(st.position, z)
    THEN LET t == PairsTrade(st, z, pA, pB, date, beta)
         IN  [st EXCEPT !.equity = st.equity + t.pnl,
                        !.totalTrades = st.totalTrades + 1,
                        !.wins = IF t.pnl > 0 THEN st.wins + 1 ELSE st.wins,
                        !.history = Append(st.history, t),
                        !.position = 0,
                        !.entrySharesA = 0,
                        !.entrySharesB = 0]
    ELSE st

\* the position an entry check opens on z: -1, 1, or 0 for none
EntrySignal(z) == IF FGt(z, 2) THEN -1 ELSE IF FLt(z, -2) THEN 1 ELSE 0

\* faulty variant: an open position is re-sized at the prices of every bar
PairsEntry_Rebalances(st, z, pA, pB, date, beta) ==
    IF st.position = 0 /\ EntrySignal(z) # 0
    THEN [st EXCEPT !.position = EntrySignal(z),
                    !.entryPriceA = pA,
                    !.entryPriceB = pB,
                    !.entrySharesA = exposurePerLeg \div pA,
                    !.entrySharesB = (exposurePerLeg * Abs(beta)) \div pB,
                    !.entryDate = date,
                    !.entryZ = z]
    ELSE IF st.position # 0
    THEN [st EXCEPT !.entrySharesA = exposurePerLeg \div pA,
                    !.entrySharesB = (exposurePerLeg * Abs(beta)) \div pB]
    ELSE st

\* if (position === 0) { if (z > 2.0) {...} else if (z < -2.0) {...} }
PairsEntry(st, z, pA, pB, date, beta) ==
    IF st.position = 0 /\ EntrySignal(z) # 0
    THEN [st EXCEPT !.position = EntrySignal(z),
                    !.entryPriceA = pA,
                    !.entryPriceB = pB,
                    !.entrySharesA = exposurePerLeg \div pA,
                    !.entrySharesB = (exposurePerLeg * Abs(beta)) \div pB,
                    !.entryDate = date,
                    !.entryZ = z]
    ELSE st

\* faulty variant: the curve is extended only while a position is open
PairsRecord_OnlyInPosition(st) ==
    IF st.position = 0 THEN st
    ELSE [st EXCEPT !.equityCurve = Append(st.equityCurve, st.equity)]

\* equityCurve.push(equity); peakEquity and maxDrawdown
PairsRecord(st) ==
    LET peak == IF st.equity > st.peakEquity THEN st.equity ELSE st.peakEquity
        dd == Drawdown(peak, st.equity)
    IN  [st EXCEPT !.equityCurve = Append(st.equityCurve, st.equity),
                   !.peakEquity = peak,
                   !.maxDrawdown = IF FracGt(dd, st.maxDrawdown) THEN dd
                                   ELSE st.maxDrawdown]

\* one iteration of the loop
PairsStep(st, z, pA, pB, date, beta) ==
    PairsRecord(PairsEntry(PairsExit(st, z, pA, pB, date, beta),
                           z, pA, pB, date, beta))

(***************************************************************************)
(* calculateBasketBacktest                                                 *)
(***************************************************************************)
EmptyMap == [s \in {} |-> 0]

BasketInit ==
    [equity |-> InitialCapital, equityCurve |-> <<InitialCapital>>, position |-> 0,
     entryPrices |-> EmptyMap, entryDate |-> NoDate, entryZ |-> Num(0),
     wins |-> 0, totalTrades |-> 0, peakEquity |-> InitialCapital,
     maxDrawdown |-> [num |-> 0, den |-> 1], history |-> <<>>,
     entryShares |-> EmptyMap]

\* weights[ySymbol] = 1.0; weights[sym] = -coefficients[i]
WeightsOf(beta) == [s \in SymbolSet |-> IF s = symbols[1] THEN 1 ELSE -beta]

\* faulty variant: the sign of the weight is ignored
LegDirection_IgnoresWeight(position, weight) == position

\* const direction = position * (weight >= 0 ? 1 : -1)
LegDirection(position, weight) == position * (IF weight >= 0 THEN 1 ELSE -1)

LegPnl(st, prices, w, sym) ==
    st.entryShares[sym] * LegDirection(st.position, w[sym])
        * (prices[sym] - st.entryPrices[sym])

RECURSIVE SumLegs(_, _)
SumLegs(f, k) == IF k = 0 THEN 0 ELSE f[symbols[k]] + SumLegs(f, k - 1)

BasketTrade(st, z, prices, date, w) ==
    LET pnlBreakdown == [s \in SymbolSet |-> LegPnl(st, prices, w, s)]
    IN  [type |-> IF st.position = 1 THEN "Long" ELSE "Short",
         entryDate |-> st.entryDate, exitDate |-> date,
         entryZ |-> st.entryZ, exitZ |-> z,
         pnl |-> SumLegs(pnlBreakdown, Len(symbols)),
         pnlBreakdown |-> pnlBreakdown,
         entryPrices |-> st.entryPrices,
         exitPrices |-> [s \in SymbolSet |-> prices[s]]]

\* // Check Exit
BasketExit(st, z, prices, date, w) ==
    IF st.position # 0 /\ CrossedMean(st.position, z)
    THEN LET t == BasketTrade(st, z, prices, date, w)
         IN  [st EXCEPT !.equity = st.equity + t.pnl,
                        !.totalTrades = st.totalTrades + 1,
                        !.wins = IF t.pnl > 0 THEN st.wins + 1 ELSE st.wins,
                        !.history = Append(st.history, t),
                        !.position = 0,
                        !.entryShares = EmptyMap,
                        !.entryPrices = EmptyMap]
    ELSE st

\* // Check Entry
BasketEntry(st, z, prices, date, w) ==
    IF st.position = 0 /\ EntrySignal(z) # 0
    THEN [st EXCEPT !.position = EntrySignal(z),
                    !.entryDate = date,
                    !.entryZ = z,
                    !.entryPrices = [s \in SymbolSet |-> prices[s]],
                    !.entryShares = [s \in SymbolSet |->
                                        (baseAllocation * Abs(w[s])) \div prices[s]]]
    ELSE st

BasketRecord(st) ==
    LET peak == IF st.equity > st.peakEquity THEN st.equity ELSE st.peakEquity
        dd == Drawdown(peak, st.equity)
    IN  [st EXCEPT !.equityCurve = Append(st.equityCurve, st.equity),
                   !.peakEquity = peak,
                   !.maxDrawdown = IF FracGt(dd, st.maxDrawdown) THEN dd
                                   ELSE st.maxDrawdown]

BasketStep(st, z, prices, date, w) ==
    BasketRecord(BasketEntry(BasketExit(st, z, prices, date, w), z, prices, date, w))

\* faulty variant: the win rate is wins / totalTrades without the guard
BacktestResult_UnguardedWinRate(st) ==
    [equityCurve |-> st.equityCurve,
     trades |-> st.totalTrades,
     winRate |-> [num |-> st.wins, den |-> st.totalTrades],
     totalReturn |-> [num |-> st.equity - InitialCapital, den |-> InitialCapital],
     maxDrawdown |-> st.maxDrawdown,
     history |-> st.history]

\* the code after the loop: totalReturn, winRate, the returned object
BacktestResult(st) ==
    [equityCurve |-> st.equityCurve,
     trades |-> st.totalTrades,
     winRate |-> IF st.totalTrades > 0
                 THEN [num |-> st.wins, den |-> st.totalTrades]
                 ELSE [num |-> 0, den |-> 1],
     totalReturn |-> [num |-> st.equity - InitialCapital, den |-> InitialCapital],
     maxDrawdown |-> st.maxDrawdown,
     history |-> st.history]

NoResult == [equityCurve |-> <<>>, trades |-> 0, winRate |-> [num |-> 0, den |-> 1],
             totalReturn |-> [num |-> 0, den |-> 1],
             maxDrawdown |-> [num |-> 0, den |-> 1], history |-> <<>>]

(***************************************************************************)
(* analyzePairs / analyzeBasket: the z-score of the spread                 *)
(***************************************************************************)
RECURSIVE Sum(_, _)
Sum(s, k) == IF k = 0 THEN 0 ELSE s[k] + Sum(s, k - 1)

RECURSIVE SumSq(_, _)
SumSq(s, k) == IF k = 0 THEN 0 ELSE s[k] * s[k] + SumSq(s, k - 1)

\* n^2 * variance of the population: std(s) = sqrt(VarN2(s)) / n
VarN2(s) == Len(s) * SumSq(s, Len(s)) - Sum(s, Len(s)) * Sum(s, Len(s))

\* a / b for doubles a >= or < 0 and b >= 0: 0/0 is NaN, x/0 is +-Infinity
\* (s - meanSpread) / stdSpread, with n * (s - mean) = n*s - sum
ZOf(s, k) ==
    LET a == Len(s) * s[k] - Sum(s, Len(s))
        v == VarN2(s)
    IN  IF v = 0 THEN (IF a = 0 THEN NaN ELSE Inf(IF a > 0 THEN 1 ELSE -1))
        ELSE [kind |-> "num", num |-> a, den2 |-> v]

\* const zScore = spread.map(s => (s - meanSpread) / stdSpread)
ZScoreOf(s) == [k \in 1..Len(s) |-> ZOf(s, k)]

(***************************************************************************)
(* Specifications                                                          *)
(***************************************************************************)
Functions == {"calculateBacktest", "calculateBasketBacktest"}

RECURSIVE SeqsOf(_, _)
SeqsOf(S, len) ==
    IF len = 0 THEN {<<>>}
    ELSE {Append(q, x) : q \in SeqsOf(S, len - 1), x \in S}

InitCommon ==
    /\ fn \in Functions
    /\ i = 0
    /\ hedgeRatio \in HedgeRatios
    /\ weights = WeightsOf(hedgeRatio)
    /\ pairs = PairsInit
    /\ basket = BasketInit
    /\ result = NoResult
    /\ args = <<>>
    /\ locals = <<>>
    /\ ret = <<>>

\* calculateBacktest / calculateBasketBacktest on any z-score and price series
Init ==
    /\ InitCommon
    /\ pc = "loop"
    /\ n \in 1..MaxLen
    /\ bar \in [z : {Num(0), Num(3)}, prices : {[s \in SymbolSet |-> 10]}]
    /\ config = DEFAULT_BACKTEST_CONFIG
    /\ spread = <<>>
    /\ zScore = <<>>

\* the same, called with a BacktestConfig the caller has set
InitConfig ==
    /\ InitCommon
    /\ pc = "loop"
    /\ n \in 1..MaxLen
    /\ bar \in [z : {Num(0), Num(3)}, prices : {[s \in SymbolSet |-> 10]}]
    /\ config \in Configs
    /\ spread = <<>>
    /\ zScore = <<>>

\* analyzePairs / analyzeBasket from the spread on
InitAnalyze ==
    /\ InitCommon
    /\ pc = "analyze"
    /\ \E len \in 1..MaxSpreadLen : spread \in SeqsOf(SpreadValues, len)
    /\ n = Len(spread)
    /\ bar = [z |-> Num(0), prices |-> [s \in SymbolSet |-> 10]]
    /\ config = DEFAULT_BACKTEST_CONFIG
    /\ zScore = <<>>

ComputeZScore ==
    /\ pc = "analyze"
    /\ zScore' = ZScoreOf(spread)
    /\ bar' = [bar EXCEPT !.z = ZScoreOf(spread)[1]]
    /\ pc' = "loop"
    /\ UNCHANGED <<fn, n, i, hedgeRatio, weights, config, spread, pairs, basket, result, args, locals, ret>>

PairsBar(z, prices) ==
    /\ pc = "loop"
    /\ fn = "calculateBacktest"
    /\ i + 1 < n
    /\ i' = i + 1
    /\ bar' = [z |-> z, prices |-> prices]
    /\ pairs' = PairsStep(pairs, z, prices["A"], prices["B"], i + 1, hedgeRatio)
    /\ UNCHANGED <<fn, pc, n, hedgeRatio, weights, config, spread, zScore, basket, result, args, locals, ret>>

BasketBar(z, prices) ==
    /\ pc = "loop"
    /\ fn = "calculateBasketBacktest"
    /\ i + 1 < n
    /\ i' = i + 1
    /\ bar' = [z |-> z, prices |-> prices]
    /\ basket' = BasketStep(basket, z, prices, i + 1, weights)
    /\ UNCHANGED <<fn, pc, n, hedgeRatio, weights, config, spread, zScore, pairs, result, args, locals, ret>>

Finish ==
    /\ pc = "loop"
    /\ ~(i + 1 < n)
    /\ pc' = "done"
    /\ result' = IF fn = "calculateBacktest" THEN BacktestResult(pairs)
                 ELSE BacktestResult(basket)
    /\ UNCHANGED <<fn, n, i, bar, hedgeRatio, weights, config, spread, zScore, pairs, basket, args, locals, ret>>

Next ==
    \/ \E z \in ZValues, prices \in PriceMaps : PairsBar(z, prices)
    \/ \E z \in ZValues, prices \in PriceMaps : BasketBar(z, prices)
    \/ Finish

NextAnalyze ==
    \/ ComputeZScore
    \/ \E prices \in AnalyzePriceMaps : i + 1 < n /\ PairsBar(zScore[i + 2], prices)
    \/ \E prices \in AnalyzePriceMaps : i + 1 < n /\ BasketBar(zScore[i + 2], prices)
    \/ Finish

Spec == Init /\ [][Next]_vars
SpecConfig == InitConfig /\ [][Next]_vars
SpecAnalyze == InitAnalyze /\ [][NextAnalyze]_vars

(***************************************************************************)
(* Properties                                                              *)
(***************************************************************************)
\* the locals of the function that is running
Cur == IF fn = "calculateBacktest" THEN pairs ELSE basket

Last(q) == q[Len(q)]

\* the sum of pnl over the first k trades of a history
RECURSIVE SumSeq(_, _)
SumSeq(s, k) == IF k = 0 THEN 0 ELSE s[k].pnl + SumSeq(s, k - 1)

\* a position opened before bar i is still open after bar i
HeldThrough == i >= 1 /\ Cur.position # 0 /\ Cur.entryDate < i

\* the pnl the open pairs position would realize at the prices of the bar
RunningPnl == PairsTrade(pairs, bar.z, bar.prices["A"], bar.prices["B"], i, hedgeRatio).pnl

Val(opt) == CHOOSE x \in opt : TRUE

\* C1: after every bar, and in the result, equity is the initial capital
\* 10000 plus the pnl of every trade in history; the last value of the
\* equity curve is that sum.
C1_EquityIsCapitalPlusPnl ==
    /\ pairs.equity = InitialCapital + SumSeq(pairs.history, Len(pairs.history))
    /\ basket.equity = InitialCapital + SumSeq(basket.history, Len(basket.history))
    /\ Last(Cur.equityCurve) = Cur.equity
    /\ pc = "done" =>
          Last(result.equityCurve)
              = InitialCapital + SumSeq(result.history, Len(result.history))

C1_Witness ==
    /\ pc = "done"
    /\ Len(result.history) = 2
    /\ result.history[1].pnl # 0
    /\ result.history[2].pnl # 0
    /\ Last(result.equityCurve) # InitialCapital

\* C2: every trade in history was entered on a bar strictly before the
\* bar that closed it.
C2_EntryBeforeExit ==
    /\ \A k \in 1..Len(pairs.history) :
          pairs.history[k].entryDate < pairs.history[k].exitDate
    /\ \A k \in 1..Len(basket.history) :
          basket.history[k].entryDate < basket.history[k].exitDate

\* a bar closed a trade and opened the next position
C2_Witness ==
    /\ Len(Cur.history) >= 1
    /\ Last(Cur.history).exitDate = i
    /\ Last(Cur.history).entryDate = i - 1
    /\ Cur.position # 0
    /\ Cur.entryDate = i

\* C3: the returned equityCurve has one entry per bar of the input
\* series (n >= 1), and i + 1 entries after bar i.
C3_CurveLengthIsSeriesLength ==
    /\ Len(Cur.equityCurve) = i + 1
    /\ pc = "done" => Len(result.equityCurve) = n

C3_Witness ==
    /\ pc = "done"
    /\ n >= 3
    /\ Len(result.equityCurve) = n
    /\ result.trades >= 1

\* C4 as stated: the returned equityCurve has series length + 1 entries and
\* starts at the initial capital.
C4_CurveLengthIsSeriesLengthPlusOne ==
    pc = "done" =>
        /\ Len(result.equityCurve) = n + 1
        /\ result.equityCurve[1] = InitialCapital

\* C4 amended: the returned equityCurve has exactly series-length entries
\* and its first element is the initial capital.
C4_CurveStartsAtCapital ==
    pc = "done" =>
        /\ Len(result.equityCurve) = n
        /\ result.equityCurve[1] = InitialCapital

C4_Witness ==
    /\ pc = "done"
    /\ n >= 2
    /\ result.equityCurve[1] = InitialCapital
    /\ Last(result.equityCurve) # InitialCapital

\* C5: on a bar whose entry check finds the engine flat, the position after
\* the bar is short exactly when z > config.entryThresholdUpper and long
\* exactly when z < config.entryThresholdLower.
C5_EntryAtConfigThresholds ==
    (i >= 1 /\ ~HeldThrough) =>
        /\ (Cur.position = -1) <=> FGt(bar.z, config.entryThresholdUpper)
        /\ (Cur.position = 1) <=> FLt(bar.z, config.entryThresholdLower)

C7_StopLossCloses ==
    (fn = "calculateBacktest" /\ config.stopLossPercent # Null /\ HeldThrough) =>
        ~(100 * RunningPnl <= -Val(config.stopLossPercent) * 2 * config.capitalPerLeg)

\* C8: with maxHoldingPeriod set, a position open after bar i has been in
\* the trade for fewer than maxHoldingPeriod bars.
C8_MaxHoldingCloses ==
    (config.maxHoldingPeriod # Null /\ i >= 1 /\ Cur.position # 0) =>
        i - Cur.entryDate < Val(config.maxHoldingPeriod)

\* C9: two consecutive values of the equity curve differ only if a trade
\* in history exits on the later bar.
C9_CurveMovesOnlyOnExit ==
    \A k \in 2..Len(Cur.equityCurve) :
        Cur.equityCurve[k] # Cur.equityCurve[k - 1] =>
            \E t \in 1..Len(Cur.history) : Cur.history[t].exitDate = k - 1

\* a pairs position is held through a bar at a running loss or gain and the
\* curve has not moved
C9_Witness ==
    /\ fn = "calculateBacktest"
    /\ HeldThrough
    /\ RunningPnl # 0
    /\ Cur.equityCurve[i + 1] = Cur.equityCurve[i]

\* C10: when the spread (of three bars or more) has zero standard deviation
\* every z-score is 0, and the backtest records no trade.
C10_ZeroStdGivesZeroZ ==
    (pc # "analyze" /\ Len(spread) >= 3 /\ VarN2(spread) = 0) =>
        /\ \A k \in 1..Len(zScore) : zScore[k] = Num(0)
        /\ Cur.history = <<>>

(***************************************************************************)
(* The other engines are pure functions of their arguments.  Each has a    *)
(* specification that draws the arguments (args, or spread for the         *)
(* half-life) and applies the function; the backtest variables rest.       *)
(***************************************************************************)
EngineIdle ==
    /\ n = 0
    /\ i = 0
    /\ bar = [z |-> Num(0), prices |-> [s \in SymbolSet |-> 10]]
    /\ hedgeRatio = 1
    /\ weights = WeightsOf(1)
    /\ config = DEFAULT_BACKTEST_CONFIG
    /\ zScore = <<>>
    /\ pairs = PairsInit
    /\ basket = BasketInit
    /\ result = NoResult

backtestVars == <<n, i, bar, hedgeRatio, weights, config, zScore, pairs, basket, result>>

(***************************************************************************)
(* calculateOLS, calculateHalfLife and the cointegration flag              *)
(*                                                                         *)
(* The spread is a series of integers, so the slope the OLS forms is the   *)
(* exact fraction                                                          *)
(*     (m * Sum(x*y) - Sum(x) * Sum(y)) / (m * Sum(x*x) - Sum(x)^2)        *)
(* over the m = length - 1 pairs (x, y) = (spread[t-1], spread[t]), and    *)
(* 0 / 0 = NaN when the regressor is constant (or m = 0).  On every series *)
(* of the domain, up to length MaxHalfLifeLen + 1, the double computation  *)
(* takes the same branches as the exact one.                               *)
(***************************************************************************)
MaxHalfLifeLen == 4
HalfLifeValues == {0, 1, 2, 90, 179}

Frac(a, b) == [kind |-> "num", num |-> a, den |-> b]

RECURSIVE SumProd(_, _, _)
SumProd(x, y, k) == IF k = 0 THEN 0 ELSE x[k] * y[k] + SumProd(x, y, k - 1)

\* const beta = num / den; const alpha = meanY - beta * meanX
calculateOLS(logX, logY) ==
    LET m == Len(logX)
        N == m * SumProd(logX, logY, m) - Sum(logX, m) * Sum(logY, m)
        D == m * SumSq(logX, m) - Sum(logX, m) * Sum(logX, m)
    IN  IF D = 0
        THEN [beta |-> IF N = 0 THEN NaN ELSE Inf(IF N > 0 THEN 1 ELSE -1),
              alpha |-> NaN]
        ELSE [beta |-> Frac(N, D),
              alpha |-> Frac(Sum(logY, m) * D - N * Sum(logX, m), m * D)]

\* the double Math.log(2) / -Math.log(phi)
LogRatio(phi) == [kind |-> "ln2/-ln", phi |-> phi]

\* faulty variant: a slope of exactly 1 is not caught, and ln 2 / 0 is returned
calculateHalfLife_UnitRootPasses(s) ==
    LET x_t == SubSeq(s, 2, Len(s))
        x_prev == SubSeq(s, 1, Len(s) - 1)
        slope == calculateOLS(x_prev, x_t).beta
    IN  IF slope.kind = "nan" THEN NaN
        ELSE IF slope.kind = "inf" THEN Num(999)
        ELSE IF slope.num > slope.den \/ slope.num <= 0 THEN Num(999)
        ELSE LogRatio(slope)

\* if (slope >= 1 || slope <= 0) return 999; return Math.log(2) / -Math.log(slope)
\* (both comparisons are false of a NaN slope, and the logarithm of NaN is NaN)
calculateHalfLife(s) ==
    LET x_t == SubSeq(s, 2, Len(s))
        x_prev == SubSeq(s, 1, Len(s) - 1)
        slope == calculateOLS(x_prev, x_t).beta
    IN  IF slope.kind = "nan" THEN NaN
        ELSE IF slope.kind = "inf" THEN Num(999)
        ELSE IF slope.num >= slope.den \/ slope.num <= 0 THEN Num(999)
        ELSE LogRatio(slope)

\* halfLife > 0.  ln 2 / -ln phi is positive for 0 < phi < 1, +Infinity for
\* phi = 1, negative for phi > 1
Above0(h) ==
    \/ h.kind = "num" /\ h.num > 0
    \/ h.kind = "ln2/-ln" /\ 0 < h.phi.num /\ h.phi.num <= h.phi.den

\* halfLife < 60.  For 0 < phi < 1: ln 2 / -ln phi < 60 iff phi^60 < 1/2, and
\* (86/87)^60 < 1/2 < (87/88)^60; no slope of the domain lies between 86/87
\* and 87/88
Below60(h) ==
    \/ h.kind = "num" /\ h.num < 60
    \/ /\ h.kind = "ln2/-ln"
       /\ h.phi.num # h.phi.den
       /\ h.phi.num > h.phi.den \/ 87 * h.phi.num <= 86 * h.phi.den

IsFinite(h) ==
    \/ h.kind = "num"
    \/ h.kind = "ln2/-ln" /\ 0 < h.phi.num /\ h.phi.num # h.phi.den

\* analyzePairs / analyzeBasket: halfLife and isCointegrated of the spread
HalfLifeOf(s) ==
    LET halfLife == calculateHalfLife(s)
    IN  [halfLife |-> halfLife, isCointegrated |-> Below60(halfLife) /\ Above0(halfLife)]

InitHalfLife ==
    /\ EngineIdle
    /\ fn = "calculateHalfLife"
    /\ pc = "call"
    /\ \E len \in 1..MaxHalfLifeLen : spread \in SeqsOf(HalfLifeValues, len)
    /\ args = <<>>
    /\ locals = <<>>
    /\ ret = <<>>

HalfLife ==
    /\ pc = "call"
    /\ fn = "calculateHalfLife"
    /\ locals' = [slope |-> calculateOLS(SubSeq(spread, 1, Len(spread) - 1),
                                         SubSeq(spread, 2, Len(spread))).beta]
    /\ ret' = HalfLifeOf(spread)
    /\ pc' = "done"
    /\ UNCHANGED <<fn, spread, args>>
    /\ UNCHANGED backtestVars

NextHalfLife == HalfLife

SpecHalfLife == InitHalfLife /\ [][NextHalfLife]_vars

\* C11: calculateHalfLife returns 999 whenever the AR(1) slope phi is >= 1
\* or <= 0, and the positive finite value ln 2 / -ln phi when 0 < phi < 1;
\* isCointegrated is exactly (halfLife < 60 and halfLife > 0), so a series
\* with the 999 sentinel is never flagged cointegrated.
C11_HalfLifeSentinel ==
    (pc = "done" /\ fn = "calculateHalfLife") =>
        LET phi == locals.slope
            h == ret.halfLife
        IN  /\ (phi.kind = "num" /\ (phi.num >= phi.den \/ phi.num <= 0)) =>
                  h = Num(999)
            /\ (phi.kind = "num" /\ 0 < phi.num /\ phi.num < phi.den) =>
                  h = LogRatio(phi) /\ Above0(h) /\ IsFinite(h)
            /\ ret.isCointegrated <=> (Below60(h) /\ Above0(h))
            /\ h = Num(999) => ~ret.isCointegrated

\* a random walk with drift: the slope is exactly 1
C11_Witness ==
    /\ pc = "done"
    /\ fn = "calculateHalfLife"
    /\ locals.slope.kind = "num"
    /\ locals.slope.num = locals.slope.den
    /\ ret.halfLife = Num(999)
    /\ ~ret.isCointegrated

\* C12: when the lagged spread is constant (the OLS regressor has zero
\* variance and the slope is 0/0), the half-life is the fallback 999, not NaN.
C12_ZeroVarianceFallsBackTo999 ==
    (/\ pc = "done"
     /\ fn = "calculateHalfLife"
     /\ Len(spread) >= 3
     /\ \A k \in 1..(Len(spread) - 1) : spread[k] = spread[1]) =>
        ret.halfLife = Num(999)

(***************************************************************************)
(* calculateBlackScholes and calculateImpliedVolatility                    *)
(* (src/lib/finance/blackScholes.ts)                                       *)
(*                                                                         *)
(* Units: S, K and prices in currency units, T in years, r in percent,     *)
(* volatilities in thousandths, discount factors in ten-thousandths.       *)
(* The closed form (erf, exp, log) is not computed.  What the model keeps  *)
(* of it is what holds of it for T > 0 and sigma > 0: the price lies       *)
(* between the discounted intrinsic value and S (call) or K * exp(-rT)     *)
(* (put), and it increases strictly with sigma, so an option price         *)
(* strictly between the two bounds is the closed-form price of exactly one *)
(* volatility, args.root; a price outside them is the price of none.       *)
(***************************************************************************)
MAX_ITERATIONS == 100

Spots == {100}
Strikes == {90, 110}
Years == {-1, 0, 1}
Rates == {0, 5}
OptionTypes == {"call", "put"}
Sigmas == {-200, 0, 200}
OptionPrices == {0, 4, 12, 150}
PriceGrid == {1, 20, 100}
TrueVols == {250, 400}
SigmaGrid == {1, 250, 400, 10000}

Max(a, b) == IF a >= b THEN a ELSE b
Min(a, b) == IF a <= b THEN a ELSE b

\* Math.exp(-r * T) in ten-thousandths: exp(0) = 1, exp(-0.05) = 0.9512
Discount(r, T) == IF r * T = 0 THEN 10000 ELSE 9512

\* Math.max(0, type === 'call' ? S - K : K - S)
Payoff(in, type) == Max(0, IF type = "call" THEN in.S - in.K ELSE in.K - in.S)

\* the bounds of the closed-form price, in ten-thousandths of a currency unit
PriceLower(in, type) ==
    Max(0, IF type = "call" THEN 10000 * in.S - in.K * Discount(in.r, in.T)
           ELSE in.K * Discount(in.r, in.T) - 10000 * in.S)
PriceUpper(in, type) ==
    IF type = "call" THEN 10000 * in.S ELSE in.K * Discount(in.r, in.T)

\* the values lines 56-104 can return: the Greeks keep their signs
ClosedForms(in, type) ==
    { [price |-> p,
       greeks |-> [delta |-> IF type = "call" THEN 500 ELSE -500, gamma |-> 1,
                   theta |-> -1, vega |-> 1,
                   rho |-> IF type = "call" THEN 1 ELSE -1],
       d1d2 |-> TRUE] :
      p \in {q \in PriceGrid : /\ 10000 * q >= PriceLower(in, type)
                               /\ 10000 * q <= PriceUpper(in, type)} }

\* faulty variant: sigma = 0 is sent to the closed form
calculateBlackScholes_ZeroSigmaPasses(in, type, closedForm) ==
    IF in.T <= 0
    THEN [price |-> Payoff(in, type),
          greeks |-> [delta |-> 0, gamma |-> 0, theta |-> 0, vega |-> 0, rho |-> 0],
          d1d2 |-> FALSE]
    ELSE IF in.sigma < 0
    THEN [price |-> Payoff(in, type),
          greeks |-> [delta |-> IF type = "call"
                                THEN (IF in.S > in.K THEN 1000 ELSE 0)
                                ELSE (IF in.S < in.K THEN -1000 ELSE 0),
                      gamma |-> 0, theta |-> 0, vega |-> 0, rho |-> 0],
          d1d2 |-> FALSE]
    ELSE closedForm

\* d1d2 records whether lines 56-57 ran; delta is in thousandths
calculateBlackScholes(in, type, closedForm) ==
    IF in.T <= 0
    THEN [price |-> Payoff(in, type),
          greeks |-> [delta |-> 0, gamma |-> 0, theta |-> 0, vega |-> 0, rho |-> 0],
          d1d2 |-> FALSE]
    ELSE IF in.sigma <= 0
    THEN [price |-> Payoff(in, type),
          greeks |-> [delta |-> IF type = "call"
                                THEN (IF in.S > in.K THEN 1000 ELSE 0)
                                ELSE (IF in.S < in.K THEN -1000 ELSE 0),
                      gamma |-> 0, theta |-> 0, vega |-> 0, rho |-> 0],
          d1d2 |-> FALSE]
    ELSE closedForm

\* faulty variant: the strike is not discounted
IntrinsicValue_Undiscounted(a) ==
    Max(0, IF a.type = "call" THEN 10000 * a.S - 10000 * a.K
           ELSE 10000 * a.K - 10000 * a.S)

\* intrinsicValue, in ten-thousandths:
\* max(0, S - K * exp(-r * T)) for a call, max(0, K * exp(-r * T) - S) for a put
IntrinsicValue(a) ==
    Max(0, IF a.type = "call" THEN 10000 * a.S - a.K * Discount(a.r, a.T)
           ELSE a.K * Discount(a.r, a.T) - 10000 * a.S)

\* T <= 0 || optionPrice <= 0, or optionPrice < intrinsicValue * 0.99
Rejected(a) ==
    \/ a.T <= 0
    \/ a.optionPrice <= 0
    \/ 100 * 10000 * a.optionPrice < 99 * IntrinsicValue(a)

\* sqrt(2 * pi / T) * optionPrice / S clamped to [0.01, 5.0]; sqrt(2 pi) = 2.507,
\* and T = 1 is the only T > 0 of the domain
InitialGuess(a) == Max(10, Min((2507 * a.optionPrice) \div a.S, 5000))

\* the sign of calculateBlackScholes({.., sigma}).price - optionPrice, 0 when
\* its magnitude is below the precision of the loop (the volatility is the
\* root, to the thousandth)
PriceDiff(a, sigma) ==
    IF a.root = Null
    THEN (IF 10000 * a.optionPrice >= PriceUpper(a, a.type) THEN -1 ELSE 1)
    ELSE IF sigma = Val(a.root) THEN 0
    ELSE IF sigma > Val(a.root) THEN 1 ELSE -1

\* sigma - diff / vega clamped to [0.001, 10]: vega is positive, so the step
\* is against the sign of diff; its length is not computed
NewtonUpdates(sigma, diff) ==
    {g \in SigmaGrid : IF diff < 0 THEN g > sigma \/ g = 10000
                       ELSE g < sigma \/ g = 1}

\* faulty variant: the width of the interval never ends the bisection
WidthBelowPrecision_Never(k) == FALSE

\* (sigmaHigh - sigmaLow) < PRECISION at iteration k of the bisection: every
\* iteration halves the interval, 4.999 / 2^k < 1e-6
WidthBelowPrecision(k) == 4999 * 1000 < 2^k

BlackScholesArgs ==
    [S : Spots, K : Strikes, T : Years, r : Rates, sigma : Sigmas, type : OptionTypes]

ImpliedVolatilityArgs ==
    { a \in [optionPrice : OptionPrices, S : Spots, K : Strikes, T : {0, 1},
             r : Rates, type : OptionTypes, root : {Null} \cup {Some(v) : v \in TrueVols}] :
        (a.root # Null) <=> /\ a.T > 0
                            /\ 10000 * a.optionPrice > PriceLower(a, a.type)
                            /\ 10000 * a.optionPrice < PriceUpper(a, a.type) }

InitOptions ==
    /\ EngineIdle
    /\ spread = <<>>
    /\ pc = "call"
    /\ \/ fn = "calculateBlackScholes" /\ args \in BlackScholesArgs
       \/ fn = "calculateImpliedVolatility" /\ args \in ImpliedVolatilityArgs
    /\ locals = <<>>
    /\ ret = <<>>

BlackScholes(closedForm) ==
    /\ pc = "call"
    /\ fn = "calculateBlackScholes"
    /\ closedForm \in ClosedForms(args, args.type)
    /\ ret' = calculateBlackScholes(args, args.type, closedForm)
    /\ pc' = "done"
    /\ UNCHANGED <<fn, spread, args, locals>>
    /\ UNCHANGED backtestVars

\* lines 132-152: the edge cases and the initial guess
ImpliedVolatility ==
    /\ pc = "call"
    /\ fn = "calculateImpliedVolatility"
    /\ IF Rejected(args)
       THEN /\ ret' = [iv |-> 0, converged |-> FALSE, iterations |-> 0]
            /\ pc' = "done"
            /\ UNCHANGED locals
       ELSE /\ locals' = [i |-> 0, sigma |-> InitialGuess(args)]
            /\ pc' = "newton"
            /\ UNCHANGED ret
    /\ UNCHANGED <<fn, spread, args>>
    /\ UNCHANGED backtestVars

\* lines 158-185: one iteration of the Newton-Raphson loop, or the code after it
NewtonIteration(vegaSmall, next) ==
    /\ pc = "newton"
    /\ LET diff == PriceDiff(args, locals.sigma)
           bisection == [i |-> 0, sigmaLow |-> 1, sigmaHigh |-> 5000]
       IN  IF locals.i < MAX_ITERATIONS
           THEN IF diff = 0
                THEN /\ ret' = [iv |-> locals.sigma, converged |-> TRUE,
                                iterations |-> locals.i + 1]
                     /\ pc' = "done"
                     /\ UNCHANGED locals
                ELSE IF vegaSmall
                THEN /\ locals' = bisection
                     /\ pc' = "bisection"
                     /\ UNCHANGED ret
                ELSE /\ next \in NewtonUpdates(locals.sigma, diff)
                     /\ locals' = [i |-> locals.i + 1, sigma |-> next]
                     /\ UNCHANGED <<pc, ret>>
           ELSE /\ locals' = bisection
                /\ pc' = "bisection"
                /\ UNCHANGED ret
    /\ UNCHANGED <<fn, spread, args>>
    /\ UNCHANGED backtestVars

\* bisectionIV: one iteration of its loop, or the code after it
BisectionIteration ==
    /\ pc = "bisection"
    /\ LET sigmaMid == (locals.sigmaLow + locals.sigmaHigh) \div 2
           diff == PriceDiff(args, sigmaMid)
       IN  IF locals.i < MAX_ITERATIONS
           THEN IF diff = 0 \/ WidthBelowPrecision(locals.i)
                THEN /\ ret' = [iv |-> sigmaMid, converged |-> TRUE,
                                iterations |-> locals.i + 1]
                     /\ pc' = "done"
                     /\ UNCHANGED locals
                ELSE /\ locals' = IF diff > 0
                                  THEN [locals EXCEPT !.i = @ + 1, !.sigmaHigh = sigmaMid]
                                  ELSE [locals EXCEPT !.i = @ + 1, !.sigmaLow = sigmaMid]
                     /\ UNCHANGED <<pc, ret>>
           ELSE /\ ret' = [iv |-> sigmaMid, converged |-> FALSE,
                           iterations |-> MAX_ITERATIONS]
                /\ pc' = "done"
                /\ UNCHANGED locals
    /\ UNCHANGED <<fn, spread, args>>
    /\ UNCHANGED backtestVars

NextOptions ==
    \/ \E closedForm \in ClosedForms(args, args.type) : BlackScholes(closedForm)
    \/ ImpliedVolatility
    \/ \E vegaSmall \in BOOLEAN, next \in SigmaGrid : NewtonIteration(vegaSmall, next)
    \/ BisectionIteration

SpecOptions == InitOptions /\ [][NextOptions]_vars

\* C13: calculateBlackScholes with T <= 0 or sigma <= 0 returns the intrinsic
\* value (max(0, S - K) for a call, max(0, K - S) for a put) with gamma,
\* theta, vega and rho all 0 and a delta of 0 or 1 for a call, 0 or -1 for a
\* put, and does not evaluate d1 and d2.
C13_BoundaryIsIntrinsic ==
    (pc = "done" /\ fn = "calculateBlackScholes" /\ (args.T <= 0 \/ args.sigma <= 0)) =>
        /\ ret.price = IF args.type = "call"
                       THEN (IF args.S - args.K > 0 THEN args.S - args.K ELSE 0)
                       ELSE (IF args.K - args.S > 0 THEN args.K - args.S ELSE 0)
        /\ ret.greeks.gamma = 0
        /\ ret.greeks.theta = 0
        /\ ret.greeks.vega = 0
        /\ ret.greeks.rho = 0
        /\ args.type = "call" => ret.greeks.delta \in {0, 1000}
        /\ args.type = "put" => ret.greeks.delta \in {0, -1000}
        /\ ~ret.d1d2

\* an in-the-money put of zero volatility, a year before expiry
C13_Witness ==
    /\ pc = "done"
    /\ fn = "calculateBlackScholes"
    /\ args.T > 0
    /\ args.sigma = 0
    /\ args.type = "put"
    /\ ret.price = 10
    /\ ret.greeks.delta = -1000

\* C14: calculateImpliedVolatility returns {iv: 0, converged: false,
\* iterations: 0} without entering the loop whenever T <= 0, optionPrice <= 0
\* or optionPrice < 0.99 * intrinsic value (the strike discounted by
\* exp(-rT)); on every other input it runs the solver, which returns after at
\* least one iteration.
C14_RejectsWithoutIterating ==
    (pc = "done" /\ fn = "calculateImpliedVolatility") =>
        LET discountedK == args.K * Discount(args.r, args.T)
            intrinsic == IF args.type = "call"
                         THEN (IF 10000 * args.S > discountedK
                               THEN 10000 * args.S - discountedK ELSE 0)
                         ELSE (IF discountedK > 10000 * args.S
                               THEN discountedK - 10000 * args.S ELSE 0)
        IN  IF \/ args.T <= 0
               \/ args.optionPrice <= 0
               \/ 100 * 10000 * args.optionPrice < 99 * intrinsic
            THEN /\ ret = [iv |-> 0, converged |-> FALSE, iterations |-> 0]
                 /\ locals = <<>>
            ELSE /\ ret.iterations >= 1
                 /\ locals # <<>>

\* a call that is above 0.99 of S - K but below 0.99 of S - K * exp(-rT)
C14_Witness ==
    /\ pc = "done"
    /\ fn = "calculateImpliedVolatility"
    /\ args.T > 0
    /\ args.optionPrice > 0
    /\ args.type = "call"
    /\ 100 * args.optionPrice >= 99 * (args.S - args.K)
    /\ ret = [iv |-> 0, converged |-> FALSE, iterations |-> 0]

\* C15: whenever calculateImpliedVolatility returns converged = true, the
\* Black-Scholes price at the returned iv matches optionPrice within the
\* precision of the solver, also when the bisection fallback returned it.
C15_ConvergedMeansPriceMatched ==
    (pc = "done" /\ fn = "calculateImpliedVolatility" /\ ret.converged) =>
        PriceDiff(args, ret.iv) = 0

(***************************************************************************)
(* fitSVISlice and generateSVISurface (the SVI part of pairs.ts)           *)
(*                                                                         *)
(* Units: implied volatilities and the SVI parameters in thousandths, R2   *)
(* in percent, sums of squared errors in units of h = 1e-4, so that a      *)
(* gradient (perturbedError - baseError) / h is a plain number and         *)
(* learningRate * gradient is that number of thousandths.                  *)
(* The SVI formula (a square root) and the sums of squared errors are not  *)
(* computed: the errors calculateSSE returns, the parameters the grid      *)
(* search picks, the R2 the fit ends with and the volatility a fitted      *)
(* slice evaluates to at a strike are drawn.  The observations are finite  *)
(* numbers, so the errors are finite.  The descent is followed for its     *)
(* first MaxDescent iterations.  The moneyness of a point, which only the  *)
(* SVI formula reads, is left out of the records.                          *)
(***************************************************************************)
MaxDescent == 2
iterations == 500

Keys == {"a", "b", "rho", "m", "sigma"}
SSEValues == {0, 20000}
R2Values == {-50, 30, 31, 150}
StartParams ==
    { [a |-> 0, b |-> 100, rho |-> -500, m |-> 0, sigma |-> 50],
      [a |-> 14, b |-> 500, rho |-> 100, m |-> 0, sigma |-> 300] }

\* gradient[key] = (perturbedError - baseError) / h
calculateGradient(baseError, perturbedError) ==
    [key \in Keys |-> perturbedError[key] - baseError]

Gradients == {calculateGradient(b, q) : b \in SSEValues, q \in [Keys -> SSEValues]}

\* faulty variant: b is not capped at 1
DescentUpdate_BUncapped(currentParams, gradient) ==
    [a |-> Max(1, currentParams.a - gradient.a),
     b |-> Max(10, currentParams.b - gradient.b),
     rho |-> Max(-990, Min(990, currentParams.rho - gradient.rho \div 10)),
     sigma |-> Max(10, currentParams.sigma - gradient.sigma),
     m |-> currentParams.m - gradient.m \div 10]

\* lines 934-938: the update with constraints
DescentUpdate(currentParams, gradient) ==
    [a |-> Max(1, currentParams.a - gradient.a),
     b |-> Max(10, Min(1000, currentParams.b - gradient.b)),
     rho |-> Max(-990, Min(990, currentParams.rho - gradient.rho \div 10)),
     sigma |-> Max(10, currentParams.sigma - gradient.sigma),
     m |-> currentParams.m - gradient.m \div 10]

RECURSIVE DescentAfter(_, _, _)
DescentAfter(start, gradients, k) ==
    IF k = 0 THEN start
    ELSE DescentUpdate(DescentAfter(start, gradients, k - 1), gradients[k])

\* r2: Math.max(0, Math.min(1, r2))
ClampR2(r2) == Max(0, Min(100, r2))

\* fitSVISlice on a run of the optimizer: the start the grid search picks,
\* the gradients of the iterations and the R2 of the end
fitSVISlice(points, run) ==
    IF Len(points) < 5 THEN Null
    ELSE Some([params |-> DescentAfter(run.start, run.gradients, Len(run.gradients)),
               r2 |-> ClampR2(run.r2)])

\* --- generateSVISurface ---
ExpiryChoices == {30, 60}
Resolutions == {1, 2}
StrikeRanges == {[min |-> 85, max |-> 105]}
ExpiryRanges == {[min |-> 30, max |-> 60], [min |-> 45, max |-> 75]}
SVIValues == {NaN, Num(240)}

\* a slice of u points with an IV (calls at the odd strikes, puts at the
\* even ones) followed by e points without
SlicePoint(days, j, usable) ==
    [strike |-> 80 + 10 * j, daysToExpiry |-> days,
     callIV |-> IF usable /\ j % 2 = 1 THEN Some(200 + 40 * j) ELSE Null,
     putIV |-> IF usable /\ j % 2 = 0 THEN Some(200 + 40 * j) ELSE Null]
SliceOf(days, kind) ==
    [j \in 1..(kind[1] + kind[2]) |-> SlicePoint(days, j, j <= kind[1])]
SliceKinds == {<<0, 0>>, <<0, 1>>, <<3, 0>>, <<4, 0>>, <<4, 1>>, <<5, 0>>}
Surfaces == {SliceOf(30, k1) \o SliceOf(60, k2) : k1 \in SliceKinds, k2 \in SliceKinds}

SetMax(S) == CHOOSE x \in S : \A y \in S : y <= x
SetMin(S) == CHOOSE x \in S : \A y \in S : x <= y
\* sorted.filter(d => d <= x).pop() and sorted.find(d => d >= x)
LowerOf(S, x) == IF {d \in S : d <= x} = {} THEN Null ELSE Some(SetMax({d \in S : d <= x}))
UpperOf(S, x) == IF {d \in S : d >= x} = {} THEN Null ELSE Some(SetMin({d \in S : d >= x}))

\* [...byExpiry.keys()]
ExpiryDaysOf(points) == {points[k].daysToExpiry : k \in 1..Len(points)}
PointsAt(points, days) ==
    LET AtDays(q) == q.daysToExpiry = days
    IN  SelectSeq(points, AtDays)

\* p.callIV ?? p.putIV
Coalesce(q) == IF q.callIV # Null THEN q.callIV ELSE q.putIV

\* points.filter(p => p.callIV !== null || p.putIV !== null).map(...)
FitDataOf(points) ==
    LET Usable(q) == q.callIV # Null \/ q.putIV # Null
        kept == SelectSeq(points, Usable)
    IN  [k \in 1..Len(kept) |-> [iv |-> Val(Coalesce(kept[k]))]]

\* strikeIVMap
StrikeIVMap(points) ==
    LET ks == {k \in 1..Len(points) : Coalesce(points[k]) # Null}
    IN  [strike \in {points[k].strike : k \in ks} |->
            Val(Coalesce(points[SetMax({k \in ks : points[k].strike = strike})]))]

RawIVByExpiry(points) ==
    [days \in ExpiryDaysOf(points) |-> StrikeIVMap(PointsAt(points, days))]

\* lines 1039-1045: a slice enters sviFits if it has 4 points or more, the
\* fit is not null and its r2 is above 0.3
SviFitsOf(points, runs) ==
    LET fitOf(days) == fitSVISlice(FitDataOf(PointsAt(points, days)), runs[days])
        accepted == {days \in ExpiryDaysOf(points) :
                        /\ Len(FitDataOf(PointsAt(points, days))) >= 4
                        /\ fitOf(days) # Null
                        /\ Val(fitOf(days)).r2 > 30}
    IN  [days \in accepted |-> Val(fitOf(days))]

\* range.min + (range.max - range.min) * (i / resolution), i = 0..resolution
GridAxis(range, resolution) ==
    [k \in 1..(resolution + 1) |->
        range.min + ((range.max - range.min) * (k - 1)) \div resolution]

\* lower * (1 - weight) + upper * weight with weight = wn / wd; NaN if
\* either is NaN; the quotient is exact on the grids of the domain
FInterp(lower, upper, wn, wd) ==
    IF lower.kind = "nan" \/ upper.kind = "nan" THEN NaN
    ELSE Num((lower.num * (wd - wn) + upper.num * wn) \div wd)

\* lines 1077-1095: the SVI volatility of a cell, 0 if no accepted fit
\* brackets it; sviEval[days, si] is sviImpliedVolatility at strike si on
\* the fit of the slice
SviCell(days, si, expiryDays, sviFits, sviEval) ==
    LET lowerExpiry == LowerOf(expiryDays, days)
        upperExpiry == UpperOf(expiryDays, days)
        Has(e) == e # Null /\ Val(e) # 0 /\ Val(e) \in DOMAIN sviFits
    IN  IF Has(lowerExpiry)
        THEN IF Has(upperExpiry) /\ upperExpiry # lowerExpiry
             THEN FInterp(sviEval[Val(lowerExpiry), si], sviEval[Val(upperExpiry), si],
                          days - Val(lowerExpiry), Val(upperExpiry) - Val(lowerExpiry))
             ELSE sviEval[Val(lowerExpiry), si]
        ELSE IF Has(upperExpiry) THEN sviEval[Val(upperExpiry), si]
        ELSE Num(0)

\* interpolateAtExpiry: null if the slice has no IV at all
interpolateAtExpiry(strikeMap, strike) ==
    LET lowerStrike == LowerOf(DOMAIN strikeMap, strike)
        upperStrike == UpperOf(DOMAIN strikeMap, strike)
    IN  IF lowerStrike = Null /\ upperStrike = Null THEN Null
        ELSE IF lowerStrike = Null THEN Some(Num(strikeMap[Val(upperStrike)]))
        ELSE IF upperStrike = Null THEN Some(Num(strikeMap[Val(lowerStrike)]))
        ELSE IF lowerStrike = upperStrike THEN Some(Num(strikeMap[Val(lowerStrike)]))
        ELSE Some(FInterp(Num(strikeMap[Val(lowerStrike)]), Num(strikeMap[Val(upperStrike)]),
                          strike - Val(lowerStrike), Val(upperStrike) - Val(lowerStrike)))

interpolateRawIV(strike, days, rawIVByExpiry, expiryDays) ==
    LET lowerExpiry == LowerOf(expiryDays, days)
        upperExpiry == UpperOf(expiryDays, days)
        At(e) == IF e # Null /\ Val(e) # 0
                 THEN interpolateAtExpiry(rawIVByExpiry[Val(e)], strike) ELSE Null
        lowerIV == At(lowerExpiry)
        upperIV == At(upperExpiry)
    IN  IF lowerExpiry = Null /\ upperExpiry = Null THEN Num(0)
        ELSE IF lowerIV = Null /\ upperIV = Null THEN Num(0)
        ELSE IF lowerIV = Null THEN Val(upperIV)
        ELSE IF upperIV = Null THEN Val(lowerIV)
        ELSE IF lowerExpiry = upperExpiry THEN Val(lowerIV)
        ELSE FInterp(Val(lowerIV), Val(upperIV),
                     days - Val(lowerExpiry), Val(upperExpiry) - Val(lowerExpiry))

\* faulty variant: no fallback to the raw observations
CellIV_NoFallback(svi, raw) ==
    IF FGt(svi, 0) THEN Num(100 * svi.num) ELSE NaN

\* lines 1097-1102: if (iv <= 0 || isNaN(iv)) iv = interpolateRawIV(..);
\* row.push(iv > 0 ? iv * 100 : NaN)
CellIV(svi, raw) ==
    LET iv == IF FLe(svi, 0) \/ svi.kind = "nan" THEN raw ELSE svi
    IN  IF FGt(iv, 0) THEN Num(100 * iv.num) ELSE NaN

generateSVISurface(a, runs, sviEval) ==
    LET expiryDays == ExpiryDaysOf(a.surfacePoints)
        sviFits == SviFitsOf(a.surfacePoints, runs)
        rawIVByExpiry == RawIVByExpiry(a.surfacePoints)
        strikes == GridAxis(a.strikeRange, a.resolution)
        expiries == GridAxis(a.expiryRange, a.resolution)
    IN  [strikes |-> strikes,
         expiries |-> expiries,
         ivGrid |-> [ei \in 1..(a.resolution + 1) |->
                       [si \in 1..(a.resolution + 1) |->
                           CellIV(SviCell(expiries[ei], si, expiryDays, sviFits, sviEval),
                                  interpolateRawIV(strikes[si], expiries[ei],
                                                   rawIVByExpiry, expiryDays))]],
         sviFits |-> sviFits]

ZeroGradient == [key \in Keys |-> 0]
SurfaceRuns ==
    { [start |-> [a |-> 14, b |-> 500, rho |-> 100, m |-> 0, sigma |-> 300],
       gradients |-> [k \in 1..MaxDescent |-> ZeroGradient],
       r2 |-> x] : x \in R2Values }

FitArgs == { [points |-> [k \in 1..len |-> [iv |-> 200 + 40 * k]], T |-> days] :
             len \in 3..6, days \in ExpiryChoices }

SurfaceArgs ==
    [surfacePoints : Surfaces, spotPrice : {100}, strikeRange : StrikeRanges,
     expiryRange : ExpiryRanges, resolution : Resolutions]

InitSVI ==
    /\ EngineIdle
    /\ spread = <<>>
    /\ pc = "call"
    /\ \/ fn = "fitSVISlice" /\ args \in FitArgs
       \/ fn = "generateSVISurface" /\ args \in SurfaceArgs
    /\ locals = <<>>
    /\ ret = <<>>

\* lines 881-928: too few points, or the grid search
FitSliceStart(start) ==
    /\ pc = "call"
    /\ fn = "fitSVISlice"
    /\ IF Len(args.points) < 5
       THEN /\ ret' = Null
            /\ pc' = "done"
            /\ UNCHANGED locals
       ELSE /\ locals' = [i |-> 0, currentParams |-> start]
            /\ pc' = "descent"
            /\ UNCHANGED ret
    /\ UNCHANGED <<fn, spread, args>>
    /\ UNCHANGED backtestVars

\* lines 930-939: one iteration of the gradient descent
DescentStep(gradient) ==
    /\ pc = "descent"
    /\ locals.i < iterations /\ locals.i < MaxDescent
    /\ locals' = [i |-> locals.i + 1,
                  currentParams |-> DescentUpdate(locals.currentParams, gradient)]
    /\ UNCHANGED <<fn, pc, spread, args, ret>>
    /\ UNCHANGED backtestVars

\* lines 941-963: the fit statistics and the result
FitSliceReturn(r2) ==
    /\ pc = "descent"
    /\ ~(locals.i < iterations /\ locals.i < MaxDescent)
    /\ ret' = Some([params |-> locals.currentParams, r2 |-> ClampR2(r2)])
    /\ pc' = "done"
    /\ UNCHANGED <<fn, spread, args, locals>>
    /\ UNCHANGED backtestVars

GenerateSurface(runs, sviEval) ==
    /\ pc = "call"
    /\ fn = "generateSVISurface"
    /\ locals' = [runs |-> runs, sviEval |-> sviEval]
    /\ ret' = generateSVISurface(args, runs, sviEval)
    /\ pc' = "done"
    /\ UNCHANGED <<fn, spread, args>>
    /\ UNCHANGED backtestVars

NextSVI ==
    \/ \E start \in StartParams : FitSliceStart(start)
    \/ \E gradient \in Gradients : DescentStep(gradient)
    \/ \E r2 \in R2Values : FitSliceReturn(r2)
    \/ \E runs \in [ExpiryChoices -> SurfaceRuns],
          sviEval \in [ExpiryChoices \X (1..3) -> SVIValues] :
            GenerateSurface(runs, sviEval)

SpecSVI == InitSVI /\ [][NextSVI]_vars

\* the usable IV points of the slice of an expiry
UsablePoints(days) == Len(FitDataOf(PointsAt(args.surfacePoints, days)))

\* C16: in generateSVISurface an expiry slice with at least 4 usable IV
\* points whose fit reaches R2 > 0.3 enters sviFits; a slice of exactly 4
\* points can be accepted.
C16_FourPointSliceIsFitted ==
    (pc = "done" /\ fn = "generateSVISurface") =>
        \A days \in ExpiryDaysOf(args.surfacePoints) :
            (UsablePoints(days) >= 4 /\ ClampR2(locals.runs[days].r2) > 30) =>
                days \in DOMAIN ret.sviFits

\* C17: after every gradient-descent iteration of fitSVISlice, and in every
\* non-null result, a >= 0.001, 0.01 <= b <= 1, -0.99 <= rho <= 0.99 and
\* sigma >= 0.01, whatever the gradient of the iteration is.
C17_BoxConstraints ==
    fn = "fitSVISlice" =>
        /\ (pc = "descent" /\ locals.i >= 1) =>
              /\ locals.currentParams.a >= 1
              /\ locals.currentParams.b >= 10 /\ locals.currentParams.b <= 1000
              /\ locals.currentParams.rho >= -990 /\ locals.currentParams.rho <= 990
              /\ locals.currentParams.sigma >= 10
        /\ (pc = "done" /\ ret # Null) =>
              /\ Val(ret).params.a >= 1
              /\ Val(ret).params.b >= 10 /\ Val(ret).params.b <= 1000
              /\ Val(ret).params.rho >= -990 /\ Val(ret).params.rho <= 990
              /\ Val(ret).params.sigma >= 10

\* a result whose b and rho sit on the upper edges and whose a and sigma
\* sit on the lower edges of the box: each was pushed out and clamped
C17_Witness ==
    /\ fn = "fitSVISlice"
    /\ pc = "done"
    /\ ret # Null
    /\ Val(ret).params.a = 1
    /\ Val(ret).params.sigma = 10
    /\ Val(ret).params.b = 1000
    /\ Val(ret).params.rho = 990

\* C18: in generateSVISurface the grid has resolution + 1 rows of
\* resolution + 1 cells; every cell is NaN or a strictly positive IV: the
\* SVI volatility times 100 if that is positive, else the raw interpolation
\* times 100 if that is positive, and NaN exactly when neither is positive.
C18_CellIsNaNOrPositive ==
    (pc = "done" /\ fn = "generateSVISurface") =>
        /\ Len(ret.ivGrid) = args.resolution + 1
        /\ Len(ret.strikes) = args.resolution + 1
        /\ Len(ret.expiries) = args.resolution + 1
        /\ \A ei \in 1..Len(ret.ivGrid) :
              /\ Len(ret.ivGrid[ei]) = args.resolution + 1
              /\ \A si \in 1..Len(ret.ivGrid[ei]) :
                    LET cell == ret.ivGrid[ei][si]
                        expiryDays == ExpiryDaysOf(args.surfacePoints)
                        svi == SviCell(ret.expiries[ei], si, expiryDays,
                                       ret.sviFits, locals.sviEval)
                        raw == interpolateRawIV(ret.strikes[si], ret.expiries[ei],
                                   RawIVByExpiry(args.surfacePoints), expiryDays)
                    IN  /\ cell = NaN \/ (cell.kind = "num" /\ cell.num > 0)
                        /\ cell = NaN <=> (~FGt(svi, 0) /\ ~FGt(raw, 0))
                        /\ FGt(svi, 0) => cell = Num(100 * svi.num)
                        /\ (~FGt(svi, 0) /\ FGt(raw, 0)) => cell = Num(100 * raw.num)

\* one grid holds a cell with neither source, a cell taken from the raw
\* observations because the SVI evaluation is NaN, and a cell taken from
\* the fit
C18_Witness ==
    /\ pc = "done"
    /\ fn = "generateSVISurface"
    /\ \E ei \in 1..Len(ret.ivGrid) : \E si \in 1..Len(ret.ivGrid[ei]) :
          ret.ivGrid[ei][si] = NaN
    /\ \E ei \in 1..Len(ret.ivGrid) : \E si \in 1..Len(ret.ivGrid[ei]) :
          LET expiryDays == ExpiryDaysOf(args.surfacePoints)
              svi == SviCell(ret.expiries[ei], si, expiryDays, ret.sviFits, locals.sviEval)
          IN  svi = NaN /\ ret.ivGrid[ei][si] # NaN
    /\ \E ei \in 1..Len(ret.ivGrid) : \E si \in 1..Len(ret.ivGrid[ei]) :
          LET expiryDays == ExpiryDaysOf(args.surfacePoints)
              svi == SviCell(ret.expiries[ei], si, expiryDays, ret.sviFits, locals.sviEval)
          IN  FGt(svi, 0) /\ ret.ivGrid[ei][si] = Num(100 * svi.num)

(***************************************************************************)
(* scanForArbitrage (arbitrage.ts)                                         *)
(*                                                                         *)
(* Implied volatilities in thousandths, all even so that the average of    *)
(* two wings is a whole number.  An expiry, an ISO date string in the      *)
(* source, is written as the number yyyymmdd, which orders as the string   *)
(* does.  The description of an opportunity (formatted text) is left out.  *)
(* An IV is null or positive, as the surface builder produces it.          *)
(***************************************************************************)
NearExpiry == 20260116
FarExpiry == 20260220
CallIVs == {Null, Some(200), Some(202), Some(222), Some(232), Some(252)}
PutIVs == {Null, Some(200)}
FarCallIVs == {Null, Some(100), Some(160)}

NearPoints ==
    { << [strike |-> 90, expiry |-> NearExpiry, callIV |-> c1, putIV |-> p1],
         [strike |-> 100, expiry |-> NearExpiry, callIV |-> c2, putIV |-> p2],
         [strike |-> 110, expiry |-> NearExpiry, callIV |-> c3, putIV |-> Null],
         [strike |-> 120, expiry |-> NearExpiry, callIV |-> c4, putIV |-> Null] >> :
      c1 \in CallIVs, c2 \in CallIVs, c3 \in CallIVs, c4 \in CallIVs,
      p1 \in PutIVs, p2 \in PutIVs }
FarPoints ==
    { << [strike |-> 100, expiry |-> FarExpiry, callIV |-> c, putIV |-> Some(200)] >> :
      c \in FarCallIVs }
Reversed(s) == [k \in 1..Len(s) |-> s[Len(s) + 1 - k]]
ArbitrageSurfaces ==
    LET ascending == {near \o far : near \in NearPoints, far \in FarPoints}
    IN  ascending \cup {Reversed(s) : s \in ascending}

\* a value the && of the source takes as present
Truthy(o) == o # Null /\ Val(o) # 0

\* [...byExpiry.keys()]: the expiries in the order of their first point
RECURSIVE ByExpiryKeys(_, _)
ByExpiryKeys(points, k) ==
    IF k = 0 THEN <<>>
    ELSE LET prev == ByExpiryKeys(points, k - 1)
         IN  IF \E j \in 1..Len(prev) : prev[j] = points[k].expiry
             THEN prev ELSE Append(prev, points[k].expiry)

\* byExpiry.get(expiry)
ExpiryPoints(points, expiry) ==
    LET AtExpiry(q) == q.expiry = expiry
    IN  SelectSeq(points, AtExpiry)

\* [...expiryPoints].sort((a, b) => a.strike - b.strike), a stable sort
RECURSIVE SortedByStrike(_, _)
SortedByStrike(expiryPoints, k) ==
    IF k = 0 THEN <<>>
    ELSE LET sorted == SortedByStrike(expiryPoints, k - 1)
             q == expiryPoints[k]
             before == Cardinality({j \in 1..Len(sorted) : sorted[j].strike <= q.strike})
         IN  SubSeq(sorted, 1, before) \o <<q>> \o SubSeq(sorted, before + 1, Len(sorted))

\* faulty variant: a violation of exactly 0.02 is flagged
ButterflyAt_FlagsAtThreshold(left, mid, right, expiry) ==
    IF Truthy(left.callIV) /\ Truthy(mid.callIV) /\ Truthy(right.callIV)
    THEN LET avgWings == (Val(left.callIV) + Val(right.callIV)) \div 2
             convexityViolation == Val(mid.callIV) - avgWings
         IN  IF convexityViolation >= 20
             THEN << [type |-> "butterfly",
                      severity |-> IF convexityViolation > 50 THEN "high"
                                   ELSE IF convexityViolation > 30 THEN "medium" ELSE "low",
                      details |-> [strikes |-> <<left.strike, mid.strike, right.strike>>,
                                   expiries |-> <<expiry>>,
                                   ivDiff |-> convexityViolation],
                      legs |-> << [action |-> "buy", optionType |-> "call", strike |-> left.strike, expiry |-> expiry],
                                  [action |-> "sell", optionType |-> "call", strike |-> mid.strike, expiry |-> expiry],
                                  [action |-> "sell", optionType |-> "call", strike |-> mid.strike, expiry |-> expiry],
                                  [action |-> "buy", optionType |-> "call", strike |-> right.strike, expiry |-> expiry] >>] >>
             ELSE <<>>
    ELSE <<>>

\* lines 68-99: the body of the butterfly loop
ButterflyAt(left, mid, right, expiry) ==
    IF Truthy(left.callIV) /\ Truthy(mid.callIV) /\ Truthy(right.callIV)
    THEN LET avgWings == (Val(left.callIV) + Val(right.callIV)) \div 2
             convexityViolation == Val(mid.callIV) - avgWings
         IN  IF convexityViolation > 20
             THEN << [type |-> "butterfly",
                      severity |-> IF convexityViolation > 50 THEN "high"
                                   ELSE IF convexityViolation > 30 THEN "medium" ELSE "low",
                      details |-> [strikes |-> <<left.strike, mid.strike, right.strike>>,
                                   expiries |-> <<expiry>>,
                                   ivDiff |-> convexityViolation],
                      legs |-> << [action |-> "buy", optionType |-> "call", strike |-> left.strike, expiry |-> expiry],
                                  [action |-> "sell", optionType |-> "call", strike |-> mid.strike, expiry |-> expiry],
                                  [action |-> "sell", optionType |-> "call", strike |-> mid.strike, expiry |-> expiry],
                                  [action |-> "buy", optionType |-> "call", strike |-> right.strike, expiry |-> expiry] >>] >>
             ELSE <<>>
    ELSE <<>>

\* for (let i = 1; i < sortedByStrike.length - 1; i++), idx = i + 1
RECURSIVE ButterflyLoop(_, _, _)
ButterflyLoop(sortedByStrike, expiry, idx) ==
    IF idx > Len(sortedByStrike) - 1 THEN <<>>
    ELSE ButterflyAt(sortedByStrike[idx - 1], sortedByStrike[idx],
                     sortedByStrike[idx + 1], expiry)
         \o ButterflyLoop(sortedByStrike, expiry, idx + 1)

\* byExpiry.forEach(...), from the k-th expiry on
RECURSIVE Butterflies(_, _, _)
Butterflies(points, keys, k) ==
    IF k > Len(keys) THEN <<>>
    ELSE LET expiryPoints == ExpiryPoints(points, keys[k])
         IN  ButterflyLoop(SortedByStrike(expiryPoints, Len(expiryPoints)), keys[k], 2)
             \o Butterflies(points, keys, k + 1)

\* [...byExpiry.keys()].sort()
RECURSIVE SortedExpiries(_)
SortedExpiries(S) ==
    IF S = {} THEN <<>> ELSE <<SetMin(S)>> \o SortedExpiries(S \ {SetMin(S)})

\* faulty variant: a small gap is rated low
CalendarAt_LowSeverity(nearPoints, farPoint, nearExpiry, farExpiry) ==
    LET nearPoint == nearPoints[SetMin({j \in 1..Len(nearPoints) :
                                          nearPoints[j].strike = farPoint.strike})]
        nearIV == Coalesce(nearPoint)
        farIV == Coalesce(farPoint)
    IN  IF Truthy(nearIV) /\ Truthy(farIV) /\ 100 * Val(farIV) < 85 * Val(nearIV)
        THEN << [type |-> "calendar",
                 severity |-> IF Val(nearIV) - Val(farIV) > 50 THEN "high" ELSE "low",
                 details |-> [strikes |-> <<farPoint.strike>>,
                              expiries |-> <<nearExpiry, farExpiry>>,
                              ivDiff |-> Val(nearIV) - Val(farIV)],
                 legs |-> << [action |-> "sell", optionType |-> "call", strike |-> farPoint.strike, expiry |-> nearExpiry],
                             [action |-> "buy", optionType |-> "call", strike |-> farPoint.strike, expiry |-> farExpiry] >>] >>
        ELSE <<>>

\* lines 116-141: one common point of two neighbouring expiries;
\* farIV < nearIV * 0.85 is compared in whole numbers
CalendarAt(nearPoints, farPoint, nearExpiry, farExpiry) ==
    LET nearPoint == nearPoints[SetMin({j \in 1..Len(nearPoints) :
                                          nearPoints[j].strike = farPoint.strike})]
        nearIV == Coalesce(nearPoint)
        farIV == Coalesce(farPoint)
    IN  IF Truthy(nearIV) /\ Truthy(farIV) /\ 100 * Val(farIV) < 85 * Val(nearIV)
        THEN << [type |-> "calendar",
                 severity |-> IF Val(nearIV) - Val(farIV) > 50 THEN "high" ELSE "medium",
                 details |-> [strikes |-> <<farPoint.strike>>,
                              expiries |-> <<nearExpiry, farExpiry>>,
                              ivDiff |-> Val(nearIV) - Val(farIV)],
                 legs |-> << [action |-> "sell", optionType |-> "call", strike |-> farPoint.strike, expiry |-> nearExpiry],
                             [action |-> "buy", optionType |-> "call", strike |-> farPoint.strike, expiry |-> farExpiry] >>] >>
        ELSE <<>>

\* commonPoints.forEach(...), from the k-th common point on
RECURSIVE CalendarLoop(_, _, _, _, _)
CalendarLoop(nearPoints, commonPoints, nearExpiry, farExpiry, k) ==
    IF k > Len(commonPoints) THEN <<>>
    ELSE CalendarAt(nearPoints, commonPoints[k], nearExpiry, farExpiry)
         \o CalendarLoop(nearPoints, commonPoints, nearExpiry, farExpiry, k + 1)

\* for (let i = 0; i < expiries.length - 1; i++), idx = i + 1
RECURSIVE Calendars(_, _, _)
Calendars(points, expiries, idx) ==
    IF idx > Len(expiries) - 1 THEN <<>>
    ELSE LET nearPoints == ExpiryPoints(points, expiries[idx])
             farPoints == ExpiryPoints(points, expiries[idx + 1])
             Common(q) == \E j \in 1..Len(nearPoints) : nearPoints[j].strike = q.strike
         IN  CalendarLoop(nearPoints, SelectSeq(farPoints, Common),
                          expiries[idx], expiries[idx + 1], 1)
             \o Calendars(points, expiries, idx + 1)

\* faulty variant: the legs buy the richer side
PutCallAt_BuysRicher(point) ==
    IF Truthy(point.callIV) /\ Truthy(point.putIV)
    THEN LET ivDiff == IF Val(point.callIV) >= Val(point.putIV)
                       THEN Val(point.callIV) - Val(point.putIV)
                       ELSE Val(point.putIV) - Val(point.callIV)
             isCallCheaper == Val(point.callIV) > Val(point.putIV)
         IN  IF ivDiff > 30
             THEN << [type |-> "put_call",
                      severity |-> IF ivDiff > 80 THEN "high"
                                   ELSE IF ivDiff > 50 THEN "medium" ELSE "low",
                      details |-> [strikes |-> <<point.strike>>,
                                   expiries |-> <<point.expiry>>,
                                   ivDiff |-> ivDiff],
                      legs |-> IF isCallCheaper
                               THEN << [action |-> "buy", optionType |-> "call", strike |-> point.strike, expiry |-> point.expiry],
                                       [action |-> "sell", optionType |-> "put", strike |-> point.strike, expiry |-> point.expiry] >>
                               ELSE << [action |-> "buy", optionType |-> "put", strike |-> point.strike, expiry |-> point.expiry],
                                       [action |-> "sell", optionType |-> "call", strike |-> point.strike, expiry |-> point.expiry] >>] >>
             ELSE <<>>
    ELSE <<>>

\* lines 147-172: the put-call check of one point
PutCallAt(point) ==
    IF Truthy(point.callIV) /\ Truthy(point.putIV)
    THEN LET ivDiff == IF Val(point.callIV) >= Val(point.putIV)
                       THEN Val(point.callIV) - Val(point.putIV)
                       ELSE Val(point.putIV) - Val(point.callIV)
             isCallCheaper == Val(point.callIV) < Val(point.putIV)
         IN  IF ivDiff > 30
             THEN << [type |-> "put_call",
                      severity |-> IF ivDiff > 80 THEN "high"
                                   ELSE IF ivDiff > 50 THEN "medium" ELSE "low",
                      details |-> [strikes |-> <<point.strike>>,
                                   expiries |-> <<point.expiry>>,
                                   ivDiff |-> ivDiff],
                      legs |-> IF isCallCheaper
                               THEN << [action |-> "buy", optionType |-> "call", strike |-> point.strike, expiry |-> point.expiry],
                                       [action |-> "sell", optionType |-> "put", strike |-> point.strike, expiry |-> point.expiry] >>
                               ELSE << [action |-> "buy", optionType |-> "put", strike |-> point.strike, expiry |-> point.expiry],
                                       [action |-> "sell", optionType |-> "call", strike |-> point.strike, expiry |-> point.expiry] >>] >>
             ELSE <<>>
    ELSE <<>>

RECURSIVE PutCalls(_, _)
PutCalls(points, k) ==
    IF k > Len(points) THEN <<>>
    ELSE PutCallAt(points[k]) \o PutCalls(points, k + 1)

\* faulty variant: the list is returned in the order of detection
SortBySeverity_Unsorted(opportunities) ==
    opportunities

\* opportunities.sort((a, b) => severityOrder[a.severity] - severityOrder[b.severity]):
\* a stable sort on three keys
SortBySeverity(opportunities) ==
    LET High(o) == o.severity = "high"
        Medium(o) == o.severity = "medium"
        Low(o) == o.severity = "low"
    IN  SelectSeq(opportunities, High) \o SelectSeq(opportunities, Medium)
        \o SelectSeq(opportunities, Low)

\* the opportunities in the order of detection
Detected(points) ==
    LET keys == ByExpiryKeys(points, Len(points))
    IN  Butterflies(points, keys, 1)
        \o Calendars(points, SortedExpiries({keys[k] : k \in 1..Len(keys)}), 1)
        \o PutCalls(points, 1)

CountOf(opportunities, type) ==
    Cardinality({k \in 1..Len(opportunities) : opportunities[k].type = type})

scanForArbitrage(points) ==
    LET opportunities == SortBySeverity(Detected(points))
    IN  [opportunities |-> opportunities,
         butterflyCount |-> CountOf(opportunities, "butterfly"),
         calendarCount |-> CountOf(opportunities, "calendar"),
         putCallCount |-> CountOf(opportunities, "put_call"),
         totalCount |-> Len(opportunities)]

InitArbitrage ==
    /\ EngineIdle
    /\ spread = <<>>
    /\ fn = "scanForArbitrage"
    /\ pc = "call"
    /\ args \in [points : ArbitrageSurfaces, spotPrice : {100}]
    /\ locals = <<>>
    /\ ret = <<>>

ScanForArbitrage ==
    /\ pc = "call"
    /\ fn = "scanForArbitrage"
    /\ locals' = [detected |-> Detected(args.points)]
    /\ ret' = scanForArbitrage(args.points)
    /\ pc' = "done"
    /\ UNCHANGED <<fn, spread, args>>
    /\ UNCHANGED backtestVars

NextArbitrage == ScanForArbitrage

SpecArbitrage == InitArbitrage /\ [][NextArbitrage]_vars

\* C19: the opportunities scanForArbitrage returns are sorted by severity:
\* nothing medium or low precedes a high one, nothing low precedes a medium.
C19_SortedBySeverity ==
    (pc = "done" /\ fn = "scanForArbitrage") =>
        \A j \in 1..Len(ret.opportunities) : \A k \in 1..Len(ret.opportunities) :
            j < k =>
                /\ ret.opportunities[k].severity = "high" =>
                      ret.opportunities[j].severity = "high"
                /\ ret.opportunities[k].severity = "medium" =>
                      ret.opportunities[j].severity # "low"

\* all three severities are returned, and a low one was detected before a
\* high one
C19_Witness ==
    /\ pc = "done"
    /\ fn = "scanForArbitrage"
    /\ \A sev \in {"high", "medium", "low"} :
          \E k \in 1..Len(ret.opportunities) : ret.opportunities[k].severity = sev
    /\ \E j \in 1..Len(locals.detected) : \E k \in 1..Len(locals.detected) :
          j < k /\ locals.detected[j].severity = "low"
                /\ locals.detected[k].severity = "high"

\* the points of an expiry, by strike (a strike occurs once per expiry)
StrikesOf(expiry) ==
    {args.points[k].strike : k \in {j \in 1..Len(args.points) : args.points[j].expiry = expiry}}
PointOf(expiry, strike) ==
    args.points[CHOOSE k \in 1..Len(args.points) :
                    args.points[k].expiry = expiry /\ args.points[k].strike = strike]
\* the strike-consecutive triples of an expiry
TriplesOf(expiry) ==
    {t \in StrikesOf(expiry) \X StrikesOf(expiry) \X StrikesOf(expiry) :
        /\ t[1] < t[2] /\ t[2] < t[3]
        /\ \A x \in StrikesOf(expiry) : ~(t[1] < x /\ x < t[2]) /\ ~(t[2] < x /\ x < t[3])}
ButterfliesFor(expiry, t) ==
    {k \in 1..Len(ret.opportunities) :
        /\ ret.opportunities[k].type = "butterfly"
        /\ ret.opportunities[k].details.expiries = <<expiry>>
        /\ ret.opportunities[k].details.strikes = t}
AllExpiries == {args.points[k].expiry : k \in 1..Len(args.points)}
\* twice the convexity violation of a triple with three call IVs
TwiceViolation(expiry, t) ==
    2 * Val(PointOf(expiry, t[2]).callIV)
        - Val(PointOf(expiry, t[1]).callIV) - Val(PointOf(expiry, t[3]).callIV)
AllPresent(expiry, t) ==
    \A x \in {t[1], t[2], t[3]} : PointOf(expiry, x).callIV # Null

\* C20: for each expiry and each strike-consecutive triple with three call
\* IVs, exactly one butterfly is emitted iff mid - (left + right)/2 > 0.02,
\* high above 0.05, medium above 0.03, else low, with legs buy left, sell
\* mid, sell mid, buy right; no butterfly is emitted for any other triple.
C20_ButterflyPerTriple ==
    (pc = "done" /\ fn = "scanForArbitrage") =>
        /\ \A expiry \in AllExpiries : \A t \in TriplesOf(expiry) :
              IF AllPresent(expiry, t) /\ TwiceViolation(expiry, t) > 40
              THEN /\ Cardinality(ButterfliesFor(expiry, t)) = 1
                   /\ \A k \in ButterfliesFor(expiry, t) :
                         /\ ret.opportunities[k].severity =
                               IF TwiceViolation(expiry, t) > 100 THEN "high"
                               ELSE IF TwiceViolation(expiry, t) > 60 THEN "medium"
                               ELSE "low"
                         /\ ret.opportunities[k].legs =
                               << [action |-> "buy", optionType |-> "call", strike |-> t[1], expiry |-> expiry],
                                  [action |-> "sell", optionType |-> "call", strike |-> t[2], expiry |-> expiry],
                                  [action |-> "sell", optionType |-> "call", strike |-> t[2], expiry |-> expiry],
                                  [action |-> "buy", optionType |-> "call", strike |-> t[3], expiry |-> expiry] >>
              ELSE ButterfliesFor(expiry, t) = {}
        /\ \A k \in 1..Len(ret.opportunities) :
              ret.opportunities[k].type = "butterfly" =>
                  \E expiry \in AllExpiries : \E t \in TriplesOf(expiry) :
                      k \in ButterfliesFor(expiry, t)
        /\ ret.butterflyCount = CountOf(ret.opportunities, "butterfly")

\* the points arrive by descending strike; one triple has three call IVs
\* and is not flagged, the other sits exactly on the 0.03 edge and is
\* flagged as low
C20_Witness ==
    /\ pc = "done"
    /\ fn = "scanForArbitrage"
    /\ args.points[2].strike > args.points[3].strike
    /\ ret.butterflyCount = 1
    /\ \E t \in TriplesOf(NearExpiry) :
          AllPresent(NearExpiry, t) /\ TwiceViolation(NearExpiry, t) <= 40
    /\ \E t \in TriplesOf(NearExpiry) :
          /\ AllPresent(NearExpiry, t) /\ TwiceViolation(NearExpiry, t) = 60
          /\ \A k \in ButterfliesFor(NearExpiry, t) : ret.opportunities[k].severity = "low"

\* the neighbouring pairs of the sorted expiries
ExpiryPairs ==
    {e \in AllExpiries \X AllExpiries :
        e[1] < e[2] /\ \A x \in AllExpiries : ~(e[1] < x /\ x < e[2])}
CalendarsFor(e, strike) ==
    {k \in 1..Len(ret.opportunities) :
        /\ ret.opportunities[k].type = "calendar"
        /\ ret.opportunities[k].details.expiries = <<e[1], e[2]>>
        /\ ret.opportunities[k].details.strikes = <<strike>>}
\* the IV of a point: the call's, or the put's if the call has none
IVOf(expiry, strike) == Coalesce(PointOf(expiry, strike))
Inverted(e, strike) ==
    /\ IVOf(e[1], strike) # Null
    /\ IVOf(e[2], strike) # Null
    /\ 100 * Val(IVOf(e[2], strike)) < 85 * Val(IVOf(e[1], strike))

\* C21: for each pair of consecutive sorted expiries and each strike in
\* both, one calendar opportunity is emitted iff the far IV is below 0.85
\* times the near IV; it is high if near - far > 0.05 and medium otherwise,
\* never low, and its legs sell the near call and buy the far call.
C21_CalendarPerCommonStrike ==
    (pc = "done" /\ fn = "scanForArbitrage") =>
        /\ \A e \in ExpiryPairs : \A strike \in StrikesOf(e[1]) \cap StrikesOf(e[2]) :
              IF Inverted(e, strike)
              THEN /\ Cardinality(CalendarsFor(e, strike)) = 1
                   /\ \A k \in CalendarsFor(e, strike) :
                         /\ ret.opportunities[k].severity =
                               IF Val(IVOf(e[1], strike)) - Val(IVOf(e[2], strike)) > 50
                               THEN "high" ELSE "medium"
                         /\ ret.opportunities[k].legs =
                               << [action |-> "sell", optionType |-> "call", strike |-> strike, expiry |-> e[1]],
                                  [action |-> "buy", optionType |-> "call", strike |-> strike, expiry |-> e[2]] >>
              ELSE CalendarsFor(e, strike) = {}
        /\ \A k \in 1..Len(ret.opportunities) :
              ret.opportunities[k].type = "calendar" =>
                  /\ ret.opportunities[k].severity # "low"
                  /\ \E e \in ExpiryPairs : \E strike \in StrikesOf(e[1]) \cap StrikesOf(e[2]) :
                        k \in CalendarsFor(e, strike)
        /\ ret.calendarCount = CountOf(ret.opportunities, "calendar")

\* a medium calendar whose near IV is the put's, the near call having none
C21_Witness ==
    /\ pc = "done"
    /\ fn = "scanForArbitrage"
    /\ ret.calendarCount = 1
    /\ PointOf(NearExpiry, 100).callIV = Null
    /\ \E k \in 1..Len(ret.opportunities) :
          /\ ret.opportunities[k].type = "calendar"
          /\ ret.opportunities[k].severity = "medium"
          /\ ret.opportunities[k].details.ivDiff = 40

PutCallsFor(expiry, strike) ==
    {k \in 1..Len(ret.opportunities) :
        /\ ret.opportunities[k].type = "put_call"
        /\ ret.opportunities[k].details.expiries = <<expiry>>
        /\ ret.opportunities[k].details.strikes = <<strike>>}
Gap(q) ==
    IF Val(q.callIV) >= Val(q.putIV) THEN Val(q.callIV) - Val(q.putIV)
    ELSE Val(q.putIV) - Val(q.callIV)
\* the option type with the lower IV at a point whose IVs differ
Cheaper(q) == IF Val(q.callIV) < Val(q.putIV) THEN "call" ELSE "put"
Richer(q) == IF Val(q.callIV) < Val(q.putIV) THEN "put" ELSE "call"

\* C22: for every point with a call and a put IV, one put_call opportunity
\* is emitted iff |callIV - putIV| > 0.03, high above 0.08, medium above
\* 0.05, else low; it buys the side with the lower IV and sells the other.
C22_PutCallPerPoint ==
    (pc = "done" /\ fn = "scanForArbitrage") =>
        /\ \A j \in 1..Len(args.points) :
              LET q == args.points[j]
                  found == PutCallsFor(q.expiry, q.strike)
              IN  IF q.callIV # Null /\ q.putIV # Null /\ Gap(q) > 30
                  THEN /\ Cardinality(found) = 1
                       /\ \A k \in found :
                             /\ ret.opportunities[k].severity =
                                   IF Gap(q) > 80 THEN "high"
                                   ELSE IF Gap(q) > 50 THEN "medium" ELSE "low"
                             /\ ret.opportunities[k].legs =
                                   << [action |-> "buy", optionType |-> Cheaper(q), strike |-> q.strike, expiry |-> q.expiry],
                                      [action |-> "sell", optionType |-> Richer(q), strike |-> q.strike, expiry |-> q.expiry] >>
                  ELSE found = {}
        /\ ret.putCallCount = CountOf(ret.opportunities, "put_call")

\* one surface with a put bought (call richer), a call bought (put richer)
\* and a point with both IVs that is not flagged
C22_Witness ==
    /\ pc = "done"
    /\ fn = "scanForArbitrage"
    /\ \E k \in 1..Len(ret.opportunities) :
          /\ ret.opportunities[k].type = "put_call"
          /\ ret.opportunities[k].severity = "high"
          /\ ret.opportunities[k].legs[1].optionType = "call"
    /\ \E k \in 1..Len(ret.opportunities) :
          /\ ret.opportunities[k].type = "put_call"
          /\ ret.opportunities[k].severity = "medium"
          /\ ret.opportunities[k].legs[1].optionType = "put"
    /\ \E j \in 1..Len(args.points) :
          /\ args.points[j].callIV # Null /\ args.points[j].putIV # Null
          /\ Gap(args.points[j]) = 22

(***************************************************************************)
(* runMonteCarloSimulation (monteCarlo.ts)                                 *)
(*                                                                         *)
(* Returns and volatilities in percent, the horizon in years, uniform      *)
(* draws in sixths, shocks in hundredths.  Math.exp is not computed: the   *)
(* factor of a step is exactly 1 when its exponent is 0, and 2 or 1/2,     *)
(* standing for any factor above or below 1, by the sign of the exponent,  *)
(* which is computed exactly.  The inputs are those the fields are         *)
(* documented for: a horizon that is not negative, whole counts of steps   *)
(* and of simulations.                                                     *)
(***************************************************************************)
MaxSimulations == 2
MaxTimeSteps == 2

Uniforms == {0, 1, 3}
\* the draws of one randn_bm call: Math.random() until u is not 0, then
\* until v is not 0
DrawSequences ==
    {d \in SeqsOf(Uniforms, 2) \cup SeqsOf(Uniforms, 3) :
        /\ d[Len(d)] # 0
        /\ Cardinality({k \in 1..Len(d) : d[k] # 0}) = 2}

SimulationInputs ==
    [initialPrice : {800}, expectedReturn : {0, 8}, volatility : {0, 20},
     timeHorizon : {0, 1}, timeSteps : 0..MaxTimeSteps,
     numSimulations : 0..MaxSimulations]

\* Math.sqrt(-2.0 * Math.log(u)) at u = 1/6 and u = 1/2
RadiusOf(u) == IF u = 1 THEN 189 ELSE 118
\* twice Math.cos(2.0 * Math.PI * v) at v = 1/6 and v = 1/2
TwiceCosOf(v) == IF v = 1 THEN 1 ELSE -2

FirstNonZero(draws, from) == SetMin({k \in from..Len(draws) : draws[k] # 0})

\* lines 24-29
randn_bm(draws) ==
    LET ku == FirstNonZero(draws, 1)
        kv == FirstNonZero(draws, ku + 1)
    IN  (RadiusOf(draws[ku]) * TwiceCosOf(draws[kv])) \div 2

Sign(x) == IF x > 0 THEN 1 ELSE IF x < 0 THEN -1 ELSE 0

\* faulty variant: the shock is not scaled by volatility * sqrt(dt)
ExponentSign_ShockUnscaled(in, shock) ==
    LET c == 100 * in.expectedReturn - (in.volatility * in.volatility) \div 2
        signA == Sign(c) * Sign(in.timeHorizon)
        signB == Sign(shock)
    IN  IF signA = 0 THEN signB
        ELSE IF signB = 0 \/ signB = signA THEN signA
        ELSE IF c * c * in.timeHorizon
                  > in.volatility * in.volatility * shock * shock * in.timeSteps
             THEN signA ELSE signB

\* the sign of drift + volSqDt * shock, with dt = timeHorizon / timeSteps,
\* drift = (expectedReturn - 0.5 * volatility^2) * dt and
\* volSqDt = volatility * Math.sqrt(dt), for timeSteps > 0; the terms are
\* compared by their squares
ExponentSign(in, shock) ==
    LET c == 100 * in.expectedReturn - (in.volatility * in.volatility) \div 2
        signA == Sign(c) * Sign(in.timeHorizon)
        signB == Sign(in.volatility) * Sign(in.timeHorizon) * Sign(shock)
    IN  IF signA = 0 THEN signB
        ELSE IF signB = 0 \/ signB = signA THEN signA
        ELSE IF c * c * in.timeHorizon
                  > in.volatility * in.volatility * shock * shock * in.timeSteps
             THEN signA
             ELSE IF c * c * in.timeHorizon
                       < in.volatility * in.volatility * shock * shock * in.timeSteps
                  THEN signB ELSE 0

\* currentPrice * Math.exp(drift + volSqDt * shock)
NextPrice(currentPrice, in, shock) ==
    IF ExponentSign(in, shock) = 0 THEN currentPrice
    ELSE IF ExponentSign(in, shock) > 0 THEN currentPrice * 2
    ELSE currentPrice \div 2

\* finalPrices.sort((a, b) => a - b)
RECURSIVE SortedPrices(_, _)
SortedPrices(prices, k) ==
    IF k = 0 THEN <<>>
    ELSE LET sorted == SortedPrices(prices, k - 1)
             before == Cardinality({j \in 1..Len(sorted) : sorted[j] <= prices[k]})
         IN  SubSeq(sorted, 1, before) \o <<prices[k]>>
             \o SubSeq(sorted, before + 1, Len(sorted))

\* finalPrices[index], undefined past the end
PriceAt(sortedPrices, index) ==
    IF index + 1 \in 1..Len(sortedPrices) THEN Some(sortedPrices[index + 1]) ELSE Null

\* Math.max(0, initialPrice - price), NaN if the price is undefined
ValueAtRisk(initialPrice, price) ==
    IF price = Null THEN NaN ELSE Num(Max(0, initialPrice - Val(price)))

\* lines 63-91
Statistics(in, sortedPrices) ==
    [mean |-> IF in.numSimulations = 0 THEN NaN
              ELSE Frac(Sum(sortedPrices, Len(sortedPrices)), in.numSimulations),
     median |-> PriceAt(sortedPrices, in.numSimulations \div 2),
     min |-> PriceAt(sortedPrices, 0),
     max |-> PriceAt(sortedPrices, in.numSimulations - 1),
     var95 |-> ValueAtRisk(in.initialPrice,
                           PriceAt(sortedPrices, (in.numSimulations * 5) \div 100)),
     var99 |-> ValueAtRisk(in.initialPrice,
                           PriceAt(sortedPrices, (in.numSimulations * 1) \div 100))]

InitMonteCarlo ==
    /\ EngineIdle
    /\ spread = <<>>
    /\ fn = "runMonteCarloSimulation"
    /\ pc = "simulate"
    /\ args \in SimulationInputs
    /\ locals = [sim |-> 0, t |-> 0, currentPrice |-> 0, path |-> <<>>,
                 paths |-> <<>>, finalPrices |-> <<>>]
    /\ ret = <<>>

\* lines 43-47: a path begins with its initial point
StartPath ==
    /\ pc = "simulate"
    /\ locals.sim < args.numSimulations
    /\ locals' = [locals EXCEPT !.t = 1,
                                !.currentPrice = args.initialPrice,
                                !.path = << [x |-> 0, y |-> args.initialPrice] >>]
    /\ pc' = "step"
    /\ UNCHANGED <<fn, spread, args, ret>>
    /\ UNCHANGED backtestVars

\* lines 49-57: one time step
PathStep(draws) ==
    /\ pc = "step"
    /\ locals.t <= args.timeSteps
    /\ LET price == NextPrice(locals.currentPrice, args, randn_bm(draws))
       IN  locals' = [locals EXCEPT !.t = locals.t + 1,
                                    !.currentPrice = price,
                                    !.path = Append(locals.path,
                                                    [x |-> locals.t, y |-> price])]
    /\ UNCHANGED <<fn, pc, spread, args, ret>>
    /\ UNCHANGED backtestVars

\* lines 59-60
EndPath ==
    /\ pc = "step"
    /\ ~(locals.t <= args.timeSteps)
    /\ locals' = [locals EXCEPT !.sim = locals.sim + 1,
                                !.paths = Append(locals.paths, locals.path),
                                !.finalPrices = Append(locals.finalPrices,
                                                       locals.currentPrice)]
    /\ pc' = "simulate"
    /\ UNCHANGED <<fn, spread, args, ret>>
    /\ UNCHANGED backtestVars

\* lines 63-91: the sort, the statistics and the result
ReturnSimulation ==
    /\ pc = "simulate"
    /\ ~(locals.sim < args.numSimulations)
    /\ LET sortedPrices == SortedPrices(locals.finalPrices, Len(locals.finalPrices))
       IN  ret' = [paths |-> locals.paths,
                   finalPrices |-> sortedPrices,
                   stats |-> Statistics(args, sortedPrices)]
    /\ pc' = "done"
    /\ UNCHANGED <<fn, spread, args, locals>>
    /\ UNCHANGED backtestVars

NextMonteCarlo ==
    \/ StartPath
    \/ \E draws \in DrawSequences : PathStep(draws)
    \/ EndPath
    \/ ReturnSimulation

SpecMonteCarlo == InitMonteCarlo /\ [][NextMonteCarlo]_vars

\* C23: runMonteCarloSimulation returns numSimulations final prices and
\* numSimulations paths of timeSteps + 1 points each, every path starting
\* at initialPrice; with expectedReturn = 0 and volatility = 0 every final
\* price is initialPrice, whatever the random draws were.
C23_ShapeAndDegenerateCase ==
    (pc = "done" /\ fn = "runMonteCarloSimulation") =>
        /\ Len(ret.finalPrices) = args.numSimulations
        /\ Len(ret.paths) = args.numSimulations
        /\ \A k \in 1..Len(ret.paths) :
              /\ Len(ret.paths[k]) = args.timeSteps + 1
              /\ ret.paths[k][1] = [x |-> 0, y |-> args.initialPrice]
        /\ (args.expectedReturn = 0 /\ args.volatility = 0) =>
              \A k \in 1..Len(ret.finalPrices) : ret.finalPrices[k] = args.initialPrice

\* a degenerate run of the largest size, on a positive horizon
C23_Witness ==
    /\ pc = "done"
    /\ fn = "runMonteCarloSimulation"
    /\ args.expectedReturn = 0 /\ args.volatility = 0
    /\ args.timeHorizon = 1
    /\ args.numSimulations = MaxSimulations
    /\ args.timeSteps = MaxTimeSteps
    /\ Len(ret.finalPrices) = MaxSimulations
    /\ \A k \in 1..MaxSimulations : ret.finalPrices[k] = args.initialPrice

(***************************************************************************)
(* More properties of calculateBacktest and calculateBasketBacktest        *)
(***************************************************************************)
\* C24: sizes are fixed at entry: a bar that closes nothing leaves the
\* entry prices, share counts, date and z-score of an open position as
\* they are; a position entered on a bar holds that bar's prices, date and
\* z-score and the shares sized from them; the trade a bar closes carries
\* the entry prices, date and z-score the position held.
C24_EntryFixedUntilClose ==
    [][ i' = i + 1 =>
          /\ fn = "calculateBacktest" =>
                /\ (pairs.position # 0 /\ pairs'.history = pairs.history) =>
                      /\ pairs'.position = pairs.position
                      /\ pairs'.entryPriceA = pairs.entryPriceA
                      /\ pairs'.entryPriceB = pairs.entryPriceB
                      /\ pairs'.entrySharesA = pairs.entrySharesA
                      /\ pairs'.entrySharesB = pairs.entrySharesB
                      /\ pairs'.entryDate = pairs.entryDate
                      /\ pairs'.entryZ = pairs.entryZ
                /\ (pairs'.position # 0 /\ pairs'.entryDate = i') =>
                      /\ pairs'.entryPriceA = bar'.prices["A"]
                      /\ pairs'.entryPriceB = bar'.prices["B"]
                      /\ pairs'.entrySharesA = exposurePerLeg \div bar'.prices["A"]
                      /\ pairs'.entrySharesB
                             = (exposurePerLeg * Abs(hedgeRatio)) \div bar'.prices["B"]
                      /\ pairs'.entryZ = bar'.z
                /\ pairs'.history # pairs.history =>
                      /\ pairs'.history = Append(pairs.history, Last(pairs'.history))
                      /\ Last(pairs'.history).entryPriceA = pairs.entryPriceA
                      /\ Last(pairs'.history).entryPriceB = pairs.entryPriceB
                      /\ Last(pairs'.history).entryDate = pairs.entryDate
                      /\ Last(pairs'.history).entryZ = pairs.entryZ
                      /\ Last(pairs'.history).pnlA
                             = pairs.entrySharesA * DirA(pairs.position)
                                 * (bar'.prices["A"] - pairs.entryPriceA)
          /\ fn = "calculateBasketBacktest" =>
                /\ (basket.position # 0 /\ basket'.history = basket.history) =>
                      /\ basket'.position = basket.position
                      /\ basket'.entryPrices = basket.entryPrices
                      /\ basket'.entryShares = basket.entryShares
                      /\ basket'.entryDate = basket.entryDate
                      /\ basket'.entryZ = basket.entryZ
                /\ (basket'.position # 0 /\ basket'.entryDate = i') =>
                      /\ basket'.entryPrices = bar'.prices
                      /\ basket'.entryShares
                             = [s \in SymbolSet |->
                                   (baseAllocation * Abs(weights[s])) \div bar'.prices[s]]
                      /\ basket'.entryZ = bar'.z
                /\ basket'.history # basket.history =>
                      /\ basket'.history = Append(basket.history, Last(basket'.history))
                      /\ Last(basket'.history).entryPrices = basket.entryPrices
                      /\ Last(basket'.history).entryDate = basket.entryDate
                      /\ Last(basket'.history).entryZ = basket.entryZ
      ]_vars

\* a pairs position entered at 20 is held through a bar at other prices
\* and closed at 10 two bars or more after its entry
C24_Witness ==
    /\ fn = "calculateBacktest"
    /\ Len(pairs.history) >= 1
    /\ Last(pairs.history).exitDate = i
    /\ Last(pairs.history).entryDate <= i - 2
    /\ Last(pairs.history).entryPriceA = 20
    /\ Last(pairs.history).exitPriceA = 10
    /\ Last(pairs.history).pnlA # 0

\* C25: in every pairs trade leg A is long iff the trade is a long-spread
\* trade; leg B is opposite to leg A when hedgeRatio > 0 and on the same
\* side otherwise; pnlA and pnlB are shares x direction x (exit - entry)
\* for those sides and pnl = pnlA + pnlB.
C25_LegSides ==
    fn = "calculateBacktest" =>
        \A k \in 1..Len(pairs.history) :
            LET t == pairs.history[k]
                signA == IF t.sideA = "Long" THEN 1 ELSE -1
                signB == IF t.sideB = "Long" THEN 1 ELSE -1
            IN  /\ t.type \in {"Long", "Short"}
                /\ t.sideA = t.type
                /\ t.sideB \in {"Long", "Short"}
                /\ (t.sideB # t.sideA) <=> hedgeRatio > 0
                /\ t.pnlA = (exposurePerLeg \div t.entryPriceA) * signA
                               * (t.exitPriceA - t.entryPriceA)
                /\ t.pnlB = ((exposurePerLeg * Abs(hedgeRatio)) \div t.entryPriceB) * signB
                               * (t.exitPriceB - t.entryPriceB)
                /\ t.pnl = t.pnlA + t.pnlB

\* a short-spread trade on a negative hedge ratio: both legs short, both
\* with a pnl
C25_Witness ==
    /\ fn = "calculateBacktest"
    /\ hedgeRatio < 0
    /\ Len(pairs.history) >= 1
    /\ Last(pairs.history).type = "Short"
    /\ Last(pairs.history).sideA = "Short"
    /\ Last(pairs.history).sideB = "Short"
    /\ Last(pairs.history).pnlA # 0
    /\ Last(pairs.history).pnlB # 0

\* C26: the trades of a history are in chronological order and do not
\* overlap: each trade is entered on or after the bar its predecessor
\* exited on.
C26_TradesDoNotOverlap ==
    /\ \A k \in 1..(Len(pairs.history) - 1) :
          pairs.history[k].exitDate <= pairs.history[k + 1].entryDate
    /\ \A k \in 1..(Len(basket.history) - 1) :
          basket.history[k].exitDate <= basket.history[k + 1].entryDate

\* the bar that closed the first trade opened the second, in the opposite
\* direction
C26_Witness ==
    /\ Len(Cur.history) = 2
    /\ Cur.history[1].exitDate = Cur.history[2].entryDate
    /\ Cur.history[1].type # Cur.history[2].type
    /\ Cur.history[1].entryDate < Cur.history[1].exitDate
    /\ Cur.history[2].entryDate < Cur.history[2].exitDate

\* the trades of a history with a positive pnl
Winners(h) == Cardinality({k \in 1..Len(h) : h[k].pnl > 0})

InitBoth ==
    /\ fn = "calculateBacktest, calculateBasketBacktest"
    /\ pc = "loop"
    /\ i = 0
    /\ n \in 1..MaxLen
    /\ bar \in [z : {Num(0), Num(3)}, prices : {[s \in SymbolSet |-> 10]}]
    /\ hedgeRatio \in HedgeRatios
    /\ weights = WeightsOf(hedgeRatio)
    /\ config = DEFAULT_BACKTEST_CONFIG
    /\ spread = <<>>
    /\ zScore = <<>>
    /\ pairs = PairsInit
    /\ basket = BasketInit
    /\ result = NoResult
    /\ args = <<>>
    /\ locals = <<>>
    /\ ret = NoResult

BothBar(z, prices) ==
    /\ pc = "loop"
    /\ i + 1 < n
    /\ i' = i + 1
    /\ bar' = [z |-> z, prices |-> prices]
    /\ pairs' = PairsStep(pairs, z, prices["A"], prices["B"], i + 1, hedgeRatio)
    /\ basket' = BasketStep(basket, z, prices, i + 1, weights)
    /\ UNCHANGED <<fn, pc, n, hedgeRatio, weights, config, spread, zScore, result,
                   args, locals, ret>>

BothFinish ==
    /\ pc = "loop"
    /\ ~(i + 1 < n)
    /\ pc' = "done"
    /\ result' = BacktestResult(pairs)
    /\ ret' = BacktestResult(basket)
    /\ UNCHANGED <<fn, n, i, bar, hedgeRatio, weights, config, spread, zScore,
                   pairs, basket, args, locals>>

NextBoth ==
    \/ \E z \in ZValues, prices \in PriceMaps : BothBar(z, prices)
    \/ BothFinish

SpecBoth == InitBoth /\ [][NextBoth]_vars

\* C28: on the same z-scores and prices, the basket {A: 1, B: -beta} and
\* the pair with hedge ratio beta (beta # 0) record the same trades: same
\* types, entry bars and exit bars, and each basket trade's pnl is twice
\* the pairs trade's pnl.
C28_BasketIsTwiceThePair ==
    /\ Len(basket.history) = Len(pairs.history)
    /\ basket.position = pairs.position
    /\ \A k \in 1..Len(pairs.history) :
          /\ basket.history[k].type = pairs.history[k].type
          /\ basket.history[k].entryDate = pairs.history[k].entryDate
          /\ basket.history[k].exitDate = pairs.history[k].exitDate
          /\ basket.history[k].pnl = 2 * pairs.history[k].pnl
          /\ basket.history[k].pnlBreakdown["A"] = 2 * pairs.history[k].pnlA
          /\ basket.history[k].pnlBreakdown["B"] = 2 * pairs.history[k].pnlB
    /\ pc = "done" =>
          /\ Len(ret.history) = Len(result.history)
          /\ ret.trades = result.trades
          /\ ret.totalReturn.num = 2 * result.totalReturn.num

\* both runs returned a short and a long trade on a positive hedge ratio,
\* with a pnl in each leg of the first
C28_Witness ==
    /\ pc = "done"
    /\ hedgeRatio = 2
    /\ Len(result.history) = 2
    /\ Len(ret.history) = 2
    /\ result.history[1].type # result.history[2].type
    /\ result.history[1].pnlA # 0
    /\ result.history[1].pnlB # 0
    /\ result.history[1].pnl # 0
    /\ ret.history[1].pnl = 2 * result.history[1].pnl

(***************************************************************************)
(* More properties of calculateImpliedVolatility                           *)
(***************************************************************************)
\* C29: calculateImpliedVolatility returns converged = false only from the
\* up-front rejection, with iterations = 0; once the solver has started, the
\* Newton loop runs at most 100 iterations and the bisection ends on its
\* interval width long before its 100th, so its converged = false return
\* is never reached; every step of either loop returns, hands over to the
\* bisection or counts one iteration more.
C29_SolverAlwaysConverges ==
    /\ [](fn = "calculateImpliedVolatility" =>
            /\ pc = "newton" => locals.i <= MAX_ITERATIONS
            /\ pc = "bisection" => locals.i < MAX_ITERATIONS
            /\ pc = "done" =>
                  /\ ret.iterations <= MAX_ITERATIONS
                  /\ ~ret.converged => (ret.iterations = 0 /\ ret.iv = 0 /\ locals = <<>>))
    /\ [][ (fn = "calculateImpliedVolatility" /\ pc \in {"newton", "bisection"}) =>
              \/ pc' = "done"
              \/ pc = "newton" /\ pc' = "bisection" /\ locals'.i = 0
              \/ pc' = pc /\ locals'.i = locals.i + 1 ]_vars

\* the bisection, started on a price no volatility reproduces, ended on its
\* interval width at its 24th iteration and reported convergence
C29_Witness ==
    /\ pc = "done"
    /\ fn = "calculateImpliedVolatility"
    /\ args.root = Null
    /\ ret.converged
    /\ ret.iterations = 24
    /\ locals.i = 23
    /\ locals.sigmaHigh - locals.sigmaLow <= 1

\* C30: the bar of index 0 is never evaluated: before the first iteration
\* the engine is flat with an empty history, no position and no trade is
\* ever entered on dates[0], whatever the z-score of index 0 is, and a
\* series of length 1 returns no trades and the curve [10000].
C30_FirstBarIsSkipped ==
    /\ i = 0 => (Cur.position = 0 /\ Cur.history = <<>>
                   /\ Cur.equityCurve = <<InitialCapital>>)
    /\ Cur.position # 0 => Cur.entryDate >= 1
    /\ \A k \in 1..Len(Cur.history) : Cur.history[k].entryDate >= 1
    /\ (pc = "done" /\ n = 1) =>
          /\ result.trades = 0
          /\ result.history = <<>>
          /\ result.equityCurve = <<InitialCapital>>

\* a series of length 1 whose only z-score is above the entry threshold
C30_Witness ==
    /\ pc = "done"
    /\ n = 1
    /\ i = 0
    /\ FGt(bar.z, 2)
    /\ result.trades = 0
    /\ result.equityCurve = <<InitialCapital>>

====
